---- MODULE Spec2Model ----
(***************************************************************************)
(* A model of koordlet's resmanager (package resmanager): the pod-eviction *)
(* pipeline with its expiring dedup cache, and the NodeSLO store that the  *)
(* informer callbacks write and the reconcilers read.                      *)
(***************************************************************************)
EXTENDS Integers, Sequences, FiniteSets, TLC

\* ------------------------------------------------------------------ bounds

\* number of pods (pod UIDs) the reconcilers may ask to evict
NumPods == 2
\* number of goroutines calling evictPodIfNotEvicted concurrently
NumCallers == 2
\* number of those pods that several reconcilers ask to evict at the same time
NumSharedPods == 1
\* longest evictPods slice passed to evictPodsIfNotEvicted
MaxBatch == 2
\* default expiration of a podsEvicted entry, in clock ticks
DefaultExpiration == 2

UIDs == 1..NumPods
SharedUIDs == 1..NumSharedPods
Callers == 1..NumCallers
Reasons == {"evictByCPU", "evictByMemory"}

\* the outcomes of the EvictV1 API call: err == nil, errors.IsNotFound(err), any other err
ErrNil == "nil"
ErrNotFound == "NotFound"
ErrOther == "Other"
EvictErrs == {ErrNil, ErrNotFound, ErrOther}

evictPodSuccess == "evictPodSuccess"
evictPodFail == "evictPodFail"

VARIABLES
    podsEvicted,  \* r.podsEvicted: key (pod UID) -> [object, ttl (ticks left)]
    callers,      \* per calling goroutine: its position in evictPodsIfNotEvicted
    emitted,      \* what the last step exchanged with the outside: the EvictV1
                  \* requests and their answer, the node events, the metrics,
                  \* and how the call for a pod ended if it returned in the step
    accepted      \* per pod UID: the dedup TTL window opened by the first answer
                  \* by which evictPod reported an EvictV1 request as an
                  \* eviction, the clock ticks it has left, and the number of
                  \* requests so reported in it

VARIABLES
    heap,            \* the NodeSLO objects and strategy blocks that pointers refer to
    nodeSLO,         \* r.nodeSLO: pointer to the stored NodeSLO, or nil
    nodeSLORWMutex,  \* r.nodeSLORWMutex: who holds the lock, or Unlocked
    informer,        \* the NodeSLO of this node in the informer's indexer, if any
    handler,         \* the informer's handler goroutine: where it is in a callback
    readers,         \* per reconciler goroutine: its getNodeSLOCopy call and snapshot
    stored,          \* the value the last write of the handler left in the store
    resctrlGate,     \* whether the RdtResctrl feature is turned on for the process
    verbosity,       \* the -v level klog was started with
    crashed          \* a nil pointer was dereferenced

VARIABLES
    klog,      \* the klog.Infof / klog.Errorf lines the last step of the store wrote
    run,       \* the goroutine in resmanager.Run: where it is, and what Run returned
    stopCh,    \* the shutdown channel: "open" or "closed"
    boot,      \* what Run has started and which caches report synced
    policies,  \* per policy reconciler: its registration status, what its feature
               \* gate and its init function returned, and whether its function
               \* was ever invoked
    kill,      \* the goroutine in killContainers: the pod, the position in the loop
               \* over its containers, and the stop requests issued
    featureCheck  \* the last call of isFeatureDisabled: its arguments and what it
                  \* returned; empty before the first call

evictVars == <<podsEvicted, callers, emitted, accepted>>
storeVars == <<heap, nodeSLO, nodeSLORWMutex, informer, handler, readers, stored,
               resctrlGate, verbosity, crashed>>
runVars == <<run, stopCh, boot, policies>>
vars == <<podsEvicted, callers, emitted, accepted, heap, nodeSLO, nodeSLORWMutex,
          informer, handler, readers, stored, resctrlGate, verbosity, crashed,
          klog, run, stopCh, boot, policies, kill, featureCheck>>

\* ------------------------------------------------- expiring dedup cache

\* Cache.Get: a lookup without side effects; an entry whose TTL has elapsed is absent
CacheGet(cache, key) ==
    key \in DOMAIN cache /\ cache[key].ttl > 0

\* Cache.SetDefault: insert or refresh the entry with the cache's default TTL
CacheSetDefault(cache, key, value) ==
    [k \in DOMAIN cache \cup {key} |->
        IF k = key THEN [object |-> value, ttl |-> DefaultExpiration]
        ELSE cache[k]]

\* one clock tick: every entry is one tick closer to its expiration
CacheAge(cache) ==
    [k \in DOMAIN cache |-> [cache[k] EXCEPT !.ttl = IF @ > 0 THEN @ - 1 ELSE 0]]

\* the background sweep started by Cache.Run: drop every expired entry
CacheSweep(cache) ==
    [k \in {x \in DOMAIN cache : cache[x].ttl > 0} |-> cache[k]]

\* ----------------------------------------------------- eviction pipeline

\* no TTL window is open for a pod
NoWindow == [left |-> 0, n |-> 0]

\* the answer to a request is reported as an eviction: it opens the pod's TTL
\* window, of DefaultExpiration ticks, when none is open, and is counted in it
Accept(w) ==
    IF w.left = 0 THEN [left |-> DefaultExpiration, n |-> 1]
    ELSE [w EXCEPT !.n = @ + 1]

\* one clock tick of a TTL window; it is closed when no tick is left
AgeWindow(w) == IF w.left <= 1 THEN NoWindow ELSE [w EXCEPT !.left = @ - 1]

Nothing ==
    [by |-> 0, err |-> "none", requests |-> <<>>, events |-> <<>>, metrics |-> <<>>,
     returned |-> "none"]

\* evictPodIfNotEvicted returns to caller c: after a dedup hit ("evicted") or
\* after the answer result to its EvictV1 request
Returned(c, result) == [Nothing EXCEPT !.by = c, !.returned = result]

\* the pod the caller's loop in evictPodsIfNotEvicted is at
CurPod(c) == Head(callers[c].todo)

\* mutant: the loop returns at the first pod whose eviction failed
NextPod_ReturnOnFailure(cr, result) ==
    [cr EXCEPT !.todo = IF result = ErrOther THEN <<>> ELSE Tail(@),
               !.prev = IF Len(cr.todo) > 1 /\ result # ErrOther THEN result ELSE "none",
               !.pc = IF Len(cr.todo) > 1 /\ result # ErrOther THEN "get" ELSE "idle"]

\* evictPodsIfNotEvicted: the loop moves to the next pod, or returns
NextPod(cr, result) ==
    [cr EXCEPT !.todo = Tail(@),
               !.prev = IF Len(cr.todo) > 1 THEN result ELSE "none",
               !.pc = IF Len(cr.todo) > 1 THEN "get" ELSE "idle"]

\* mutant: the dedup lookup is skipped
AlreadyEvicted_Never(uid) == FALSE

\* mutant: the dedup lookup takes an expired entry for a live one
AlreadyEvicted_IgnoresExpiry(uid) == uid \in DOMAIN podsEvicted

\* evictPodIfNotEvicted: _, evicted := r.podsEvicted.Get(string(evictPod.UID))
AlreadyEvicted(uid) == CacheGet(podsEvicted, uid)

\* mutant: NotFound is reported as a failed eviction
EvictPodResult_NotFoundFails(err) == err = ErrNil

\* evictPod's return value for the outcome of the EvictV1 call
EvictPodResult(err) ==
    IF err = ErrNil THEN TRUE
    ELSE IF err # ErrNotFound THEN FALSE
    ELSE TRUE

\* mutant: every error, NotFound included, records an evictPodFail event
EvictPodEvents_FailOnAnyError(uid, err) ==
    IF err = ErrNil THEN <<[pod |-> uid, reason |-> evictPodSuccess]>>
    ELSE <<[pod |-> uid, reason |-> evictPodFail]>>

\* the events evictPod records on the node for the outcome of the EvictV1 call
EvictPodEvents(uid, err) ==
    IF err = ErrNil THEN <<[pod |-> uid, reason |-> evictPodSuccess]>>
    ELSE IF err # ErrNotFound THEN <<[pod |-> uid, reason |-> evictPodFail]>>
    ELSE <<>>

\* mutant: the eviction metric is recorded whenever evictPod returns true
EvictPodMetrics_OnEveryTrue(reason, err) ==
    IF err = ErrNil \/ err = ErrNotFound THEN <<reason>> ELSE <<>>

\* evictPod's metrics.RecordPodEviction(reason) calls
EvictPodMetrics(reason, err) ==
    IF err = ErrNil THEN <<reason>> ELSE <<>>

\* evictPod's EvictV1 requests: one per call
EvictPodRequests(uid) == <<uid>>

\* mutant: the dedup entry is never written
InsertsDedupEntry_Never(success) == FALSE

\* mutant: the dedup entry is written whatever evictPod returned
InsertsDedupEntry_Always(success) == TRUE

\* evictPodIfNotEvicted: if success { r.podsEvicted.SetDefault(...) }
InsertsDedupEntry(success) == success

\* a reconciler goroutine enters the loop of evictPodsIfNotEvicted
Call(c, pods, reason) ==
    /\ callers[c].pc = "idle"
    /\ callers' = [callers EXCEPT ![c] =
            [pc |-> IF pods = <<>> THEN "idle" ELSE "get", todo |-> pods,
             reason |-> reason, prev |-> "none"]]
    /\ emitted' = Nothing
    /\ UNCHANGED <<podsEvicted, accepted, storeVars, klog, runVars, kill, featureCheck>>

\* evictPodIfNotEvicted, the dedup lookup and the early return
EvictPodIfNotEvicted_Get(c) ==
    /\ callers[c].pc = "get"
    /\ callers' = [callers EXCEPT ![c] =
            IF AlreadyEvicted(CurPod(c)) THEN NextPod(@, "evicted")
            ELSE [@ EXCEPT !.pc = "evict"]]
    /\ emitted' = IF AlreadyEvicted(CurPod(c)) THEN Returned(c, "evicted") ELSE Nothing
    /\ UNCHANGED <<podsEvicted, accepted, storeVars, klog, runVars, kill, featureCheck>>

\* evictPod up to the EvictV1 call: the request leaves, and the goroutine waits
\* for the answer
EvictPod_Send(c) ==
    /\ callers[c].pc = "evict"
    /\ emitted' = [Nothing EXCEPT !.by = c, !.requests = EvictPodRequests(CurPod(c))]
    /\ callers' = [callers EXCEPT ![c].pc = "answer"]
    /\ UNCHANGED <<podsEvicted, accepted, storeVars, klog, runVars, kill, featureCheck>>

\* evictPod after the EvictV1 call, whose outcome the API server decides: the
\* event, the metric and the return value, and the test of it in
\* evictPodIfNotEvicted
EvictPod_Answer(c, err) ==
    /\ callers[c].pc = "answer"
    /\ LET uid == CurPod(c)
           success == EvictPodResult(err)
       IN /\ emitted' = [by |-> c, err |-> err,
                         requests |-> <<>>,
                         events |-> EvictPodEvents(uid, err),
                         metrics |-> EvictPodMetrics(callers[c].reason, err),
                         returned |-> IF InsertsDedupEntry(success) THEN "none" ELSE err]
          /\ accepted' = [accepted EXCEPT ![uid] = IF success THEN Accept(@) ELSE @]
          /\ callers' = [callers EXCEPT ![c] =
                IF InsertsDedupEntry(success)
                THEN [@ EXCEPT !.pc = "set", !.prev = err]
                ELSE NextPod(@, err)]
    /\ UNCHANGED <<podsEvicted, storeVars, klog, runVars, kill, featureCheck>>

\* evictPodIfNotEvicted: _ = r.podsEvicted.SetDefault(string(evictPod.UID), evictPod.UID)
EvictPodIfNotEvicted_Set(c) ==
    /\ callers[c].pc = "set"
    /\ podsEvicted' = CacheSetDefault(podsEvicted, CurPod(c), CurPod(c))
    /\ callers' = [callers EXCEPT ![c] = NextPod(@, @.prev)]
    /\ emitted' = Returned(c, callers[c].prev)
    /\ UNCHANGED <<accepted, storeVars, klog, runVars, kill, featureCheck>>

\* time passes by one tick
Tick ==
    /\ podsEvicted' = CacheAge(podsEvicted)
    /\ accepted' = [u \in UIDs |-> AgeWindow(accepted[u])]
    /\ emitted' = Nothing
    /\ UNCHANGED <<callers, storeVars, klog, runVars, kill, featureCheck>>

\* the cache's sweep goroutine removes the expired entries
Sweep ==
    /\ \E k \in DOMAIN podsEvicted : podsEvicted[k].ttl = 0
    /\ podsEvicted' = CacheSweep(podsEvicted)
    /\ emitted' = Nothing
    /\ UNCHANGED <<callers, accepted, storeVars, klog, runVars, kill, featureCheck>>

\* ------------------------------------------------------- NodeSLO values

\* a Go pointer or omitempty field as a value: None is nil (the empty string for
\* the two policy strings), Some(v) is a pointer to v
None == <<>>
Some(v) == <<v>>

\* the fields of NodeSLOSpec, each a pointer to a strategy block
Blocks == {"ResourceUsedThresholdWithBE", "ResourceQoSStrategy", "CPUBurstStrategy"}

\* the fields of ResourceQoSStrategy, each a pointer to a ResourceQoS
QoSClasses == {"LSR", "LS", "BE", "System", "CgroupRoot"}

\* ResourceThresholdStrategy with no field set
EmptyThreshold ==
    [Enable |-> None, CPUSuppressThresholdPercent |-> None, CPUSuppressPolicy |-> None,
     MemoryEvictThresholdPercent |-> None, MemoryEvictLowerPercent |-> None]

\* CPUBurstStrategy with no field set
EmptyCPUBurst ==
    [Policy |-> None, CPUBurstPercent |-> None, CFSQuotaBurstPercent |-> None,
     CFSQuotaBurstPeriodSeconds |-> None, SharePoolThresholdPercent |-> None]

\* MemoryQoSCfg with no field set
EmptyMemoryQoS ==
    [Enable |-> None, MinLimitPercent |-> None, LowLimitPercent |-> None,
     ThrottlingPercent |-> None, WmarkRatio |-> None, WmarkScalePermill |-> None,
     WmarkMinAdj |-> None, PriorityEnable |-> None, Priority |-> None,
     OomKillGroup |-> None]

\* ResctrlQoSCfg with no field set
EmptyResctrlQoS ==
    [Enable |-> None, CATRangeStartPercent |-> None, CATRangeEndPercent |-> None,
     MBAPercent |-> None]

\* ResourceQoS with no field set
EmptyResourceQoS == [MemoryQoS |-> None, ResctrlQoS |-> None]

\* ResourceQoSStrategy with no field set
EmptyQoSStrategy == [c \in QoSClasses |-> None]

\* NodeSLOSpec{}
EmptySpec == [b \in Blocks |-> None]

\* util.DefaultNodeSLOSpecConfig().ResourceUsedThresholdWithBE
DefaultThreshold ==
    [EmptyThreshold EXCEPT !.Enable = Some(TRUE),
                           !.CPUSuppressThresholdPercent = Some(65),
                           !.CPUSuppressPolicy = Some("cpuset"),
                           !.MemoryEvictThresholdPercent = Some(70)]

\* util.DefaultNodeSLOSpecConfig().CPUBurstStrategy
DefaultCPUBurst ==
    [Policy |-> Some("none"), CPUBurstPercent |-> Some(1000),
     CFSQuotaBurstPercent |-> Some(300), CFSQuotaBurstPeriodSeconds |-> Some(-1),
     SharePoolThresholdPercent |-> Some(50)]

\* the default ResourceQoS of one QoS class
DefaultResourceQoS ==
    [MemoryQoS |-> Some([Enable |-> Some(FALSE), MinLimitPercent |-> Some(0),
                         LowLimitPercent |-> Some(0), ThrottlingPercent |-> Some(0),
                         WmarkRatio |-> Some(95), WmarkScalePermill |-> Some(20),
                         WmarkMinAdj |-> Some(0), PriorityEnable |-> Some(0),
                         Priority |-> Some(0), OomKillGroup |-> Some(0)]),
     ResctrlQoS |-> Some([Enable |-> Some(FALSE), CATRangeStartPercent |-> Some(0),
                          CATRangeEndPercent |-> Some(100), MBAPercent |-> Some(100)])]

\* util.DefaultNodeSLOSpecConfig().ResourceQoSStrategy
DefaultQoSStrategy ==
    [c \in QoSClasses |-> IF c \in {"LSR", "LS", "BE"} THEN Some(DefaultResourceQoS) ELSE None]

\* util.DefaultNodeSLOSpecConfig()
DefaultNodeSLOSpecConfig ==
    [ResourceUsedThresholdWithBE |-> Some(DefaultThreshold),
     ResourceQoSStrategy |-> Some(DefaultQoSStrategy),
     CPUBurstStrategy |-> Some(DefaultCPUBurst)]

\* a block of leaves merged field by field: the pushed leaf when it is set, the
\* default's leaf otherwise
MergeLeaves(d, p) == [f \in DOMAIN d |-> IF p[f] # None THEN p[f] ELSE d[f]]

\* a pointer to a block of leaves merged over the default's pointer: a nil
\* pushed block inherits the default block, a set one is merged into it
MergeBlock(d, p) ==
    IF p = None THEN d
    ELSE IF d = None THEN p
    ELSE Some(MergeLeaves(d[1], p[1]))

\* one QoS class: its two sub-policies are merged independently
MergeResourceQoS(d, p) ==
    [MemoryQoS |-> MergeBlock(d.MemoryQoS, p.MemoryQoS),
     ResctrlQoS |-> MergeBlock(d.ResctrlQoS, p.ResctrlQoS)]

\* a pointer to the ResourceQoS of one class merged over the default's pointer
MergeClass(d, p) ==
    IF p = None THEN d
    ELSE IF d = None THEN p
    ELSE Some(MergeResourceQoS(d[1], p[1]))

\* the QoS classes are merged independently
MergeQoSClasses(d, p) == [c \in QoSClasses |-> MergeClass(d[c], p[c])]

\* mergeSLOSpecResourceUsedThresholdWithBE(defaultSpec, newSpec)
mergeSLOSpecResourceUsedThresholdWithBE(defaultSpec, newSpec) ==
    MergeBlock(defaultSpec, newSpec)

\* mergeSLOSpecResourceQoSStrategy(defaultSpec, newSpec)
mergeSLOSpecResourceQoSStrategy(defaultSpec, newSpec) ==
    IF newSpec = None THEN defaultSpec
    ELSE IF defaultSpec = None THEN newSpec
    ELSE Some(MergeQoSClasses(defaultSpec[1], newSpec[1]))

\* mergeSLOSpecCPUBurstStrategy(defaultSpec, newSpec)
mergeSLOSpecCPUBurstStrategy(defaultSpec, newSpec) ==
    MergeBlock(defaultSpec, newSpec)

\* the secondary pass on one QoS class: the resctrl sub-policy is disabled
DisableResctrl(rq) ==
    IF rq = None \/ rq[1].ResctrlQoS = None THEN rq
    ELSE Some([rq[1] EXCEPT !.ResctrlQoS = Some([@[1] EXCEPT !.Enable = Some(FALSE)])])

\* mergeNoneResourceQoSIfDisabled(resourceQoS): with the feature turned off for
\* the process, the resctrl sub-policy of every class is disabled
mergeNoneResourceQoSIfDisabled(resourceQoS, gate) ==
    IF gate \/ resourceQoS = None THEN resourceQoS
    ELSE Some([c \in QoSClasses |-> DisableResctrl(resourceQoS[1][c])])

\* ------------------------------------------------------------ the heap

\* A pointer is the address of a cell, or Nil.  A NodeSLO object is a cell of
\* heap.objs holding its metadata and, as its Spec, one pointer per strategy
\* block; a strategy block is a cell of heap.blks.  A cell is named after the
\* goroutine that allocated it; a cell nothing points to is collected.
Nil == <<>>
StoreOwner == <<"store", 0>>
InformerOwner == <<"informer", 0>>
HandlerOwner == <<"handler", 0>>
ReaderOwner(r) == <<"reader", r>>
Unlocked == <<>>

BlockAddr(owner, b) == <<owner[1], owner[2], b>>
OwnerOf(addr) == <<addr[1], addr[2]>>

\* the NodeSLO a pointer refers to, as a value: pointers replaced by what they point to
ValueOf(H, a) ==
    [meta |-> H.objs[a].meta,
     spec |-> [b \in Blocks |-> IF H.objs[a].spec[b] = Nil THEN None
                                ELSE Some(H.blks[H.objs[a].spec[b]])]]

\* the garbage collector: a block no object points to is gone
Collect(H) ==
    [H EXCEPT !.blks =
        [x \in {y \in DOMAIN H.blks : \E a \in DOMAIN H.objs, b \in Blocks : H.objs[a].spec[b] = y}
            |-> H.blks[x]]]

\* the owner's object and blocks are dropped
Free(H, owner) ==
    [objs |-> [a \in DOMAIN H.objs \ {owner} |-> H.objs[a]],
     blks |-> [x \in {y \in DOMAIN H.blks : OwnerOf(y) # owner} |-> H.blks[x]]]

\* the owner allocates the blocks of spec
NewBlocks(H, owner, spec) ==
    LET new == {BlockAddr(owner, b) : b \in {c \in Blocks : spec[c] # None}}
        keep == {y \in DOMAIN H.blks : OwnerOf(y) # owner}
    IN [x \in keep \cup new |-> IF x \in new THEN spec[x[3]][1] ELSE H.blks[x]]

\* the owner allocates a NodeSLO with the given value, blocks included
New(H, owner, value) ==
    [objs |-> [a \in DOMAIN H.objs \cup {owner} |->
                IF a = owner
                THEN [meta |-> value.meta,
                      spec |-> [b \in Blocks |-> IF value.spec[b] = None THEN Nil
                                                 ELSE BlockAddr(owner, b)]]
                ELSE H.objs[a]],
     blks |-> NewBlocks(H, owner, value.spec)]

\* (*NodeSLO).DeepCopy(): a new object with new blocks of the same content
DeepCopy(H, a, owner) == New(H, owner, ValueOf(H, a))

\* mutant: no two specs are found equal
DeepEqual_Never(x, y) == FALSE

\* reflect.DeepEqual on two NodeSLOSpec values
DeepEqual(x, y) == x = y

\* ------------------------------------------------------ the NodeSLO store

\* mutant: the default and the pushed block change places in the merge calls
MergeNodeSLOSpec_DefaultWins(H, store, arg, gate) ==
    IF store = Nil \/ arg = Nil THEN H
    ELSE LET new == ValueOf(H, arg).spec
             def == DefaultNodeSLOSpecConfig
             merged == [ResourceUsedThresholdWithBE |->
                            mergeSLOSpecResourceUsedThresholdWithBE(
                                new.ResourceUsedThresholdWithBE, def.ResourceUsedThresholdWithBE),
                        ResourceQoSStrategy |->
                            mergeNoneResourceQoSIfDisabled(
                                mergeSLOSpecResourceQoSStrategy(
                                    new.ResourceQoSStrategy, def.ResourceQoSStrategy), gate),
                        CPUBurstStrategy |->
                            mergeSLOSpecCPUBurstStrategy(
                                new.CPUBurstStrategy, def.CPUBurstStrategy)]
         IN [objs |-> [H.objs EXCEPT ![store].spec =
                        [b \in Blocks |-> IF merged[b] # None THEN BlockAddr(StoreOwner, b)
                                          ELSE @[b]]],
             blks |-> NewBlocks(H, StoreOwner, merged)]

\* mutant: a strategy block is merged only when the pushed spec sets it
MergeNodeSLOSpec_SkipsNilBlocks(H, store, arg, gate) ==
    IF store = Nil \/ arg = Nil THEN H
    ELSE LET new == ValueOf(H, arg).spec
             def == DefaultNodeSLOSpecConfig
             merged == [ResourceUsedThresholdWithBE |->
                            IF new.ResourceUsedThresholdWithBE = None THEN None
                            ELSE mergeSLOSpecResourceUsedThresholdWithBE(
                                def.ResourceUsedThresholdWithBE, new.ResourceUsedThresholdWithBE),
                        ResourceQoSStrategy |->
                            IF new.ResourceQoSStrategy = None THEN None
                            ELSE mergeNoneResourceQoSIfDisabled(
                                mergeSLOSpecResourceQoSStrategy(
                                    def.ResourceQoSStrategy, new.ResourceQoSStrategy), gate),
                        CPUBurstStrategy |->
                            IF new.CPUBurstStrategy = None THEN None
                            ELSE mergeSLOSpecCPUBurstStrategy(
                                def.CPUBurstStrategy, new.CPUBurstStrategy)]
         IN [objs |-> [H.objs EXCEPT ![store].spec =
                        [b \in Blocks |-> IF merged[b] # None THEN BlockAddr(StoreOwner, b)
                                          ELSE @[b]]],
             blks |-> NewBlocks(H, StoreOwner, merged)]

\* mutant: r.nodeSLO.Spec takes a merged block only where its own block is nil
MergeNodeSLOSpec_OnlyNilBlocks(H, store, arg, gate) ==
    IF store = Nil \/ arg = Nil THEN H
    ELSE LET new == ValueOf(H, arg).spec
             def == DefaultNodeSLOSpecConfig
             all == [ResourceUsedThresholdWithBE |->
                            mergeSLOSpecResourceUsedThresholdWithBE(
                                def.ResourceUsedThresholdWithBE, new.ResourceUsedThresholdWithBE),
                        ResourceQoSStrategy |->
                            mergeNoneResourceQoSIfDisabled(
                                mergeSLOSpecResourceQoSStrategy(
                                    def.ResourceQoSStrategy, new.ResourceQoSStrategy), gate),
                        CPUBurstStrategy |->
                            mergeSLOSpecCPUBurstStrategy(
                                def.CPUBurstStrategy, new.CPUBurstStrategy)]
             merged == [b \in Blocks |-> IF H.objs[store].spec[b] = Nil THEN all[b] ELSE None]
         IN [objs |-> [H.objs EXCEPT ![store].spec =
                        [b \in Blocks |-> IF merged[b] # None THEN BlockAddr(StoreOwner, b)
                                          ELSE @[b]]],
             blks |-> [x \in DOMAIN H.blks \cup
                            {BlockAddr(StoreOwner, b) : b \in {c \in Blocks : merged[c] # None}} |->
                        IF OwnerOf(x) = StoreOwner /\ merged[x[3]] # None
                        THEN merged[x[3]][1] ELSE H.blks[x]]]

\* mergeNodeSLOSpec(nodeSLO): each strategy block of the pushed spec is merged
\* with the default config, and r.nodeSLO.Spec takes every merged block that is
\* not nil
MergeNodeSLOSpec(H, store, arg, gate) ==
    IF store = Nil \/ arg = Nil THEN H
    ELSE LET new == ValueOf(H, arg).spec
             def == DefaultNodeSLOSpecConfig
             merged == [ResourceUsedThresholdWithBE |->
                            mergeSLOSpecResourceUsedThresholdWithBE(
                                def.ResourceUsedThresholdWithBE, new.ResourceUsedThresholdWithBE),
                        ResourceQoSStrategy |->
                            mergeNoneResourceQoSIfDisabled(
                                mergeSLOSpecResourceQoSStrategy(
                                    def.ResourceQoSStrategy, new.ResourceQoSStrategy), gate),
                        CPUBurstStrategy |->
                            mergeSLOSpecCPUBurstStrategy(
                                def.CPUBurstStrategy, new.CPUBurstStrategy)]
         IN [objs |-> [H.objs EXCEPT ![store].spec =
                        [b \in Blocks |-> IF merged[b] # None THEN BlockAddr(StoreOwner, b)
                                          ELSE @[b]]],
             blks |-> NewBlocks(H, StoreOwner, merged)]

\* createNodeSLO: r.nodeSLO = nodeSLO.DeepCopy(); r.nodeSLO.Spec = nodeSLO.Spec
CreateAssign(H, arg) ==
    LET copied == DeepCopy(H, arg, StoreOwner)
    IN Collect([copied EXCEPT !.objs[StoreOwner].spec = H.objs[arg].spec])

\* mutant: updateNodeSLOSpec replaces the stored object as createNodeSLO does
UpdateAssign_ReplacesObject(H, store, arg) == CreateAssign(H, arg)

\* updateNodeSLOSpec: r.nodeSLO.Spec = nodeSLO.Spec
UpdateAssign(H, store, arg) ==
    Collect([H EXCEPT !.objs[store].spec = H.objs[arg].spec])

\* mutant: getNodeSLOCopy copies the NodeSLO struct but not what its Spec points to
GetNodeSLOCopy_Shallow(H, store, r) ==
    IF store = Nil THEN [heap |-> Free(H, ReaderOwner(r)), ptr |-> Nil]
    ELSE [heap |-> [Free(H, ReaderOwner(r)) EXCEPT !.objs =
                        [a \in DOMAIN @ \cup {ReaderOwner(r)} |->
                            IF a = ReaderOwner(r) THEN H.objs[store] ELSE @[a]]],
          ptr |-> ReaderOwner(r)]

\* getNodeSLOCopy: nil while r.nodeSLO is nil, r.nodeSLO.DeepCopy() otherwise
GetNodeSLOCopy(H, store, r) ==
    IF store = Nil THEN [heap |-> Free(H, ReaderOwner(r)), ptr |-> Nil]
    ELSE [heap |-> DeepCopy(H, store, ReaderOwner(r)), ptr |-> ReaderOwner(r)]

\* the klog levels the agent is run with: the default, and one at which the
\* V(5) lines are written
Verbosities == {0, 5}

\* klog.V(level): whether lines of that level are written
V(level) == verbosity >= level

\* the log lines of the callbacks, createNodeSLO and updateNodeSLOSpec
LogUnchanged == "find NodeSLO spec has not changed"
LogCreate == "create NodeSLO"
LogUpdateSpec == "update NodeSLO spec"
LogContent == "update nodeSLO content"

\* mutant: AddFunc takes the branch of a failed type assertion and does not call
\* createNodeSLO
AddFunc_ParseFails(obj) ==
    /\ ~crashed /\ handler.pc = "idle" /\ informer = Nil
    /\ informer' = InformerOwner
    /\ heap' = New(heap, InformerOwner, obj)
    /\ klog' = <<"node slo informer add func parse nodeSLO failed">>
    /\ UNCHANGED <<nodeSLO, nodeSLORWMutex, handler, readers, stored, resctrlGate, verbosity, crashed,
                   evictVars, runVars, kill, featureCheck>>

\* AddFunc: the informer hands its new object to the callback, which calls
\* createNodeSLO
AddFunc(obj) ==
    /\ ~crashed /\ handler.pc = "idle" /\ informer = Nil
    /\ informer' = InformerOwner
    /\ heap' = New(heap, InformerOwner, obj)
    /\ handler' = [pc |-> "createLock", op |-> "add"]
    /\ klog' = <<>>
    /\ UNCHANGED <<nodeSLO, nodeSLORWMutex, readers, stored, resctrlGate, verbosity, crashed,
                   evictVars, runVars, kill, featureCheck>>

\* createNodeSLO: r.nodeSLORWMutex.Lock(), which waits while the lock is held
CreateNodeSLO_Lock ==
    /\ handler.pc = "createLock"
    /\ nodeSLORWMutex = Unlocked
    /\ nodeSLORWMutex' = HandlerOwner
    /\ handler' = [handler EXCEPT !.pc = "create"]
    /\ klog' = <<>>
    /\ UNCHANGED <<heap, nodeSLO, informer, readers, stored, resctrlGate, verbosity, crashed,
                   evictVars, runVars, kill, featureCheck>>

\* createNodeSLO, the assignments under the lock
CreateNodeSLO_Assign ==
    /\ handler.pc = "create"
    /\ heap' = CreateAssign(heap, informer)
    /\ nodeSLO' = StoreOwner
    /\ stored' = Some(ValueOf(heap', nodeSLO'))
    /\ handler' = [handler EXCEPT !.pc = "merge"]
    /\ klog' = <<>>
    /\ UNCHANGED <<nodeSLORWMutex, informer, readers, resctrlGate, verbosity, crashed, evictVars, runVars, kill, featureCheck>>

\* UpdateFunc: it returns when the spec has not changed; otherwise it writes its
\* log line and calls updateNodeSLOSpec
UpdateFunc(newObj) ==
    /\ ~crashed /\ handler.pc = "idle" /\ informer # Nil
    /\ LET oldNodeSLO == ValueOf(heap, informer)
       IN IF DeepEqual(oldNodeSLO.spec, newObj.spec)
          THEN /\ klog' = IF V(5) THEN <<LogUnchanged>> ELSE <<>>
               /\ UNCHANGED handler
          ELSE /\ klog' = <<LogUpdateSpec>>
               /\ handler' = [pc |-> "updateLock", op |-> "update"]
    /\ heap' = New(heap, InformerOwner, newObj)
    /\ UNCHANGED <<nodeSLO, nodeSLORWMutex, informer, readers, stored, resctrlGate, verbosity, crashed,
                   evictVars, runVars, kill, featureCheck>>

\* updateNodeSLOSpec: r.nodeSLORWMutex.Lock(), which waits while the lock is held
UpdateNodeSLOSpec_Lock ==
    /\ handler.pc = "updateLock"
    /\ nodeSLORWMutex = Unlocked
    /\ nodeSLORWMutex' = HandlerOwner
    /\ handler' = [handler EXCEPT !.pc = "update"]
    /\ klog' = <<>>
    /\ UNCHANGED <<heap, nodeSLO, informer, readers, stored, resctrlGate, verbosity, crashed,
                   evictVars, runVars, kill, featureCheck>>

\* updateNodeSLOSpec, the assignment under the lock
UpdateNodeSLOSpec_Assign ==
    /\ handler.pc = "update"
    /\ IF nodeSLO = Nil
       THEN /\ crashed' = TRUE
            /\ UNCHANGED <<heap, stored, handler>>
       ELSE /\ heap' = UpdateAssign(heap, nodeSLO, informer)
            /\ stored' = Some(ValueOf(heap', nodeSLO))
            /\ handler' = [handler EXCEPT !.pc = "merge"]
            /\ UNCHANGED crashed
    /\ klog' = <<>>
    /\ UNCHANGED <<nodeSLO, nodeSLORWMutex, informer, readers, resctrlGate, verbosity, evictVars,
                   runVars, kill, featureCheck>>

\* createNodeSLO and updateNodeSLOSpec: the merge with the default config, then
\* the deferred Unlock
MergeAndUnlock ==
    /\ handler.pc = "merge"
    /\ heap' = Collect(MergeNodeSLOSpec(heap, nodeSLO, informer, resctrlGate))
    /\ stored' = Some(ValueOf(heap', nodeSLO))
    /\ nodeSLORWMutex' = Unlocked
    /\ klog' = <<LogContent>>
    /\ handler' = IF handler.op = "add" THEN [handler EXCEPT !.pc = "created"]
                  ELSE [pc |-> "idle", op |-> "none"]
    /\ UNCHANGED <<nodeSLO, informer, readers, resctrlGate, verbosity, crashed, evictVars, runVars, kill, featureCheck>>

\* AddFunc: its log line, written after createNodeSLO has returned and released
\* the lock
AddFunc_Log ==
    /\ handler.pc = "created"
    /\ klog' = <<LogCreate>>
    /\ handler' = [pc |-> "idle", op |-> "none"]
    /\ UNCHANGED <<heap, nodeSLO, nodeSLORWMutex, informer, readers, stored, resctrlGate, verbosity,
                   crashed, evictVars, runVars, kill, featureCheck>>

\* mutant: a DeleteFunc empties the store
Deleted_ResetsStore ==
    /\ ~crashed /\ handler.pc = "idle" /\ informer # Nil
    /\ informer' = Nil
    /\ nodeSLO' = Nil
    /\ heap' = Free(Free(heap, InformerOwner), StoreOwner)
    /\ stored' = None
    /\ klog' = <<>>
    /\ UNCHANGED <<nodeSLORWMutex, handler, readers, resctrlGate, verbosity,
                   crashed, evictVars, runVars, kill, featureCheck>>

\* the NodeSLO is deleted in the cluster; no DeleteFunc is registered
Deleted ==
    /\ ~crashed /\ handler.pc = "idle" /\ informer # Nil
    /\ informer' = Nil
    /\ heap' = Free(heap, InformerOwner)
    /\ klog' = <<>>
    /\ UNCHANGED <<nodeSLO, nodeSLORWMutex, handler, readers, stored, resctrlGate, verbosity,
                   crashed, evictVars, runVars, kill, featureCheck>>

\* mutant: the readers of r.nodeSLO do not wait for the lock
MayLock_Always(mutex) == TRUE

\* Lock() returns when nobody holds the mutex
MayLock(mutex) == mutex = Unlocked

\* getNodeSLOCopy: r.nodeSLORWMutex.Lock()
GetNodeSLOCopy_Lock(r) ==
    /\ ~crashed /\ readers[r].pc = "idle"
    /\ MayLock(nodeSLORWMutex)
    /\ nodeSLORWMutex' = IF nodeSLORWMutex = Unlocked THEN ReaderOwner(r) ELSE nodeSLORWMutex
    /\ readers' = [readers EXCEPT ![r].pc = "locked"]
    /\ klog' = <<>>
    /\ UNCHANGED <<heap, nodeSLO, informer, handler, stored, resctrlGate, verbosity, crashed, evictVars, runVars, kill, featureCheck>>

\* getNodeSLOCopy: the copy, the deferred Unlock and the return
GetNodeSLOCopy_Return(r) ==
    /\ readers[r].pc = "locked"
    /\ LET res == GetNodeSLOCopy(heap, nodeSLO, r)
       IN /\ heap' = Collect(res.heap)
          /\ readers' = [readers EXCEPT ![r] =
                [pc |-> "idle", snap |-> res.ptr, dirty |-> FALSE,
                 view |-> IF nodeSLO = Nil THEN None ELSE Some(ValueOf(heap, nodeSLO))]]
    /\ nodeSLORWMutex' = IF nodeSLORWMutex = ReaderOwner(r) THEN Unlocked ELSE nodeSLORWMutex
    /\ klog' = <<>>
    /\ UNCHANGED <<nodeSLO, informer, handler, stored, resctrlGate, verbosity, crashed, evictVars, runVars, kill, featureCheck>>

\* what a reconciler may do to the NodeSLO it got: write a leaf through a block
\* pointer, or write a field of the object
Mutations == {"leaf", "meta"}

\* the NodeSLO value a reconciler expects to read back after its write
MutateValue(v, m) ==
    IF m = "leaf"
    THEN [v EXCEPT !.spec.ResourceUsedThresholdWithBE =
            Some([@[1] EXCEPT !.CPUSuppressThresholdPercent = Some(1)])]
    ELSE [v EXCEPT !.meta = "mutated"]

\* a reconciler writes into its snapshot
ReaderMutate(r, m) ==
    /\ ~crashed /\ readers[r].pc = "idle" /\ readers[r].snap # Nil
    /\ LET a == readers[r].snap
           thr == heap.objs[a].spec.ResourceUsedThresholdWithBE
       IN IF m = "leaf"
          THEN /\ thr # Nil
               /\ heap' = [heap EXCEPT !.blks[thr].CPUSuppressThresholdPercent = Some(1)]
          ELSE heap' = [heap EXCEPT !.objs[a].meta = "mutated"]
    /\ readers' = [readers EXCEPT ![r].dirty = TRUE,
                                  ![r].view = Some(MutateValue(@[1], m))]
    /\ klog' = <<>>
    /\ UNCHANGED <<nodeSLO, nodeSLORWMutex, informer, handler, stored, resctrlGate, verbosity,
                   crashed, evictVars, runVars, kill, featureCheck>>

\* the sequences over S of length at most n
RECURSIVE SeqsUpTo(_, _)
SeqsUpTo(S, n) ==
    IF n = 0 THEN {<<>>}
    ELSE LET shorter == SeqsUpTo(S, n - 1)
         IN shorter \cup {Append(s, x) : s \in {t \in shorter : Len(t) = n - 1}, x \in S}

\* -------------------------------------------------------- killContainers

\* most containers in a pod
MaxContainers == 3

\* what killContainers meets for one container of pod.Spec.Containers:
\*   found    util.FindContainerIdAndStatusByName returns no error
\*   running  containerStatus != nil && containerStatus.State.Running != nil
\*   id       containerID != ""
\*   handler  runtime.GetRuntimeHandler returns a handler and no error
\*   stopOK   runtimeHandler.StopContainer returns no error
\* each is looked at only when the ones before it hold
ContainerCases ==
    {c \in [found : BOOLEAN, running : BOOLEAN, id : BOOLEAN, handler : BOOLEAN,
            stopOK : BOOLEAN] :
        /\ c.running => c.found
        /\ c.id => c.running
        /\ c.handler => c.id
        /\ c.stopOK => c.handler}

\* the pods killContainers may be called with: their containers, in the order of
\* pod.Spec.Containers
Pods == SeqsUpTo(ContainerCases, MaxContainers)

\* mutant: a failed handler lookup ends killContainers
KillBranch_HandlerFailureReturns(c) ==
    IF ~c.found THEN "return"
    ELSE IF ~c.running THEN "return"
    ELSE IF ~c.id THEN "continue"
    ELSE IF ~c.handler THEN "return"
    ELSE "stop"

\* the body of the loop of killContainers for one container: it returns from
\* killContainers, goes on to the next container, or sends the stop request and
\* goes on
KillBranch(c) ==
    IF ~c.found THEN "return"
    ELSE IF ~c.running THEN "return"
    ELSE IF ~c.id THEN "continue"
    ELSE IF ~c.handler THEN "continue"
    ELSE "stop"

\* runtimeHandler.StopContainer(containerID, 0), for the i-th container
StopRequest(i) == [container |-> i, grace |-> 0]

\* killContainers(pod, message) is called
KillContainers_Call(pod) ==
    /\ kill.pc \in {"idle", "done"}
    /\ kill' = [pc |-> IF pod = <<>> THEN "done" ELSE "loop", pod |-> pod, i |-> 1,
                stops |-> <<>>]
    /\ UNCHANGED <<evictVars, storeVars, klog, runVars, featureCheck>>

\* killContainers: one iteration of the loop over pod.Spec.Containers
KillContainers_Loop ==
    /\ kill.pc = "loop"
    /\ LET branch == KillBranch(kill.pod[kill.i])
           last == kill.i = Len(kill.pod)
       IN kill' = [kill EXCEPT
                !.pc = IF branch = "return" \/ last THEN "done" ELSE "loop",
                !.i = IF branch = "return" \/ last THEN @ ELSE @ + 1,
                !.stops = IF branch = "stop" THEN Append(@, StopRequest(kill.i)) ELSE @]
    /\ UNCHANGED <<evictVars, storeVars, klog, runVars, featureCheck>>

\* ------------------------------------------------------------------- Run

\* the policy reconcilers, in the order in which Run registers them
PolicyOrder ==
    <<"reconcileBECgroup", "cgroupResourceReconcile", "cpuSuppress", "cpuBurst",
      "memoryEvictor", "rdtResCtrl">>
Policies == {PolicyOrder[i] : i \in DOMAIN PolicyOrder}

RunOwner == <<"run", 0>>

\* what Run returns: nil, or the error of the wait that failed
ErrNodeSLOSync == "time out waiting for node slo caches to sync"
ErrStatesSync == "time out waiting for kubelet meta service caches to sync"
ErrHasSynced == "time out waiting for sync NodeSLO"
RunErrs == {ErrNodeSLOSync, ErrStatesSync, ErrHasSynced}

\* the policies Run registers with util.RunFeatureWithInit; the others with util.RunFeature
WithInit == {"cgroupResourceReconcile", "cpuBurst", "rdtResCtrl"}

\* mutant: hasSynced does not look at the store
HasSynced_Always(H, store) == TRUE

\* hasSynced, the value it returns
HasSynced(H, store) ==
    store # Nil /\ H.objs[store].spec.ResourceUsedThresholdWithBE # Nil

\* cache.WaitForCacheSync(stopCh, cond): true once cond holds, false once stopCh
\* is closed
WaitOutcomes(synced, stop) ==
    (IF synced THEN {"synced"} ELSE {}) \cup (IF stop = "closed" THEN {"timeout"} ELSE {})

\* Run: r.podsEvicted.Run(stopCh)
Run_StartSweep ==
    /\ run.pc = "new"
    /\ boot' = [boot EXCEPT !.sweep = TRUE]
    /\ run' = [run EXCEPT !.pc = "startInformer"]
    /\ UNCHANGED <<stopCh, policies, evictVars, storeVars, klog, kill, featureCheck>>

\* Run: go r.nodeSLOInformer.Run(stopCh)
Run_StartInformer ==
    /\ run.pc = "startInformer"
    /\ boot' = [boot EXCEPT !.informer = TRUE]
    /\ run' = [run EXCEPT !.pc = "waitNodeSLO"]
    /\ UNCHANGED <<stopCh, policies, evictVars, storeVars, klog, kill, featureCheck>>

\* the NodeSLO informer has listed the NodeSLO objects
NodeSLOInformerSynced ==
    /\ boot.informer /\ ~boot.nodeSLOSynced
    /\ boot' = [boot EXCEPT !.nodeSLOSynced = TRUE]
    /\ UNCHANGED <<run, stopCh, policies, evictVars, storeVars, klog, kill, featureCheck>>

\* the states informer, which is started elsewhere, has synced
StatesInformerSynced ==
    /\ ~boot.statesSynced
    /\ boot' = [boot EXCEPT !.statesSynced = TRUE]
    /\ UNCHANGED <<run, stopCh, policies, evictVars, storeVars, klog, kill, featureCheck>>

\* the shutdown signal fires
Stop ==
    /\ stopCh = "open"
    /\ stopCh' = "closed"
    /\ UNCHANGED <<run, boot, policies, evictVars, storeVars, klog, kill, featureCheck>>

\* Run: WaitForCacheSync(stopCh, r.nodeSLOInformer.HasSynced)
Run_WaitNodeSLO ==
    /\ run.pc = "waitNodeSLO"
    /\ \E o \in WaitOutcomes(boot.nodeSLOSynced, stopCh) :
        run' = IF o = "synced" THEN [run EXCEPT !.pc = "waitStates"]
               ELSE [run EXCEPT !.pc = "returned", !.err = ErrNodeSLOSync]
    /\ UNCHANGED <<stopCh, boot, policies, evictVars, storeVars, klog, kill, featureCheck>>

\* Run: WaitForCacheSync(stopCh, r.statesInformer.HasSynced)
Run_WaitStates ==
    /\ run.pc = "waitStates"
    /\ \E o \in WaitOutcomes(boot.statesSynced, stopCh) :
        run' = IF o = "synced" THEN [run EXCEPT !.pc = "waitHasSynced"]
               ELSE [run EXCEPT !.pc = "returned", !.err = ErrStatesSync]
    /\ UNCHANGED <<stopCh, boot, policies, evictVars, storeVars, klog, kill, featureCheck>>

\* Run: WaitForCacheSync(stopCh, r.hasSynced) gives up
Run_WaitHasSyncedTimeout ==
    /\ run.pc = "waitHasSynced"
    /\ "timeout" \in WaitOutcomes(FALSE, stopCh)
    /\ run' = [run EXCEPT !.pc = "returned", !.err = ErrHasSynced]
    /\ UNCHANGED <<stopCh, boot, policies, evictVars, storeVars, klog, kill, featureCheck>>

\* hasSynced: r.nodeSLORWMutex.Lock()
HasSynced_Lock ==
    /\ run.pc = "waitHasSynced"
    /\ MayLock(nodeSLORWMutex)
    /\ nodeSLORWMutex' = IF nodeSLORWMutex = Unlocked THEN RunOwner ELSE nodeSLORWMutex
    /\ run' = [run EXCEPT !.pc = "hasSynced"]
    /\ UNCHANGED <<heap, nodeSLO, informer, handler, readers, stored, resctrlGate, verbosity, crashed,
                   stopCh, boot, policies, evictVars, klog, kill, featureCheck>>

\* hasSynced: the value read, the deferred Unlock and the return to the wait of Run
HasSynced_Return ==
    /\ run.pc = "hasSynced"
    /\ run' = [run EXCEPT !.pc = IF HasSynced(heap, nodeSLO) THEN "register"
                                 ELSE "waitHasSynced"]
    /\ nodeSLORWMutex' = IF nodeSLORWMutex = RunOwner THEN Unlocked ELSE nodeSLORWMutex
    /\ UNCHANGED <<heap, nodeSLO, informer, handler, readers, stored, resctrlGate, verbosity, crashed,
                   stopCh, boot, policies, evictVars, klog, kill, featureCheck>>

\* whether the feature a policy depends on is enabled for the process; resctrlGate
\* is the gate of RdtResctrl, the other gates are any value
GateOutcomes(p, gate) == IF p = "rdtResCtrl" THEN {gate} ELSE BOOLEAN

\* mutant: a policy is started whatever its feature gate says
Registered_GateIgnored(p, enabled, initOK) ==
    IF p \in WithInit /\ ~initOK THEN "initFailed" ELSE "running"

\* util.RunFeature and util.RunFeatureWithInit: nothing is started when a
\* required feature is disabled or the init function returns an error;
\* otherwise the policy's function is run periodically until stopCh is closed
Registered(p, enabled, initOK) ==
    IF ~enabled THEN "disabled"
    ELSE IF p \in WithInit /\ ~initOK THEN "initFailed"
    ELSE "running"

\* mutant: Run returns when a policy cannot be started
AfterRegister_StopsOnFailure(r, status) ==
    IF status # "running" THEN [r EXCEPT !.pc = "returned", !.err = "nil"]
    ELSE IF r.next = Len(PolicyOrder) THEN [r EXCEPT !.pc = "blocked"]
    ELSE [r EXCEPT !.next = @ + 1]

\* Run goes on to the next registration, and after the last one to <-stopCh
AfterRegister(r, status) ==
    IF r.next = Len(PolicyOrder) THEN [r EXCEPT !.pc = "blocked"]
    ELSE [r EXCEPT !.next = @ + 1]

\* Run: the next util.RunFeature / util.RunFeatureWithInit call
Run_Register ==
    /\ run.pc = "register"
    /\ LET p == PolicyOrder[run.next]
       IN \E enabled \in GateOutcomes(p, resctrlGate), initOK \in BOOLEAN :
            LET status == Registered(p, enabled, initOK)
            IN /\ policies' = [policies EXCEPT
                    ![p].status = status,
                    ![p].gate = IF enabled THEN "on" ELSE "off",
                    ![p].init = IF p \in WithInit /\ enabled
                                THEN (IF initOK THEN "ok" ELSE "failed") ELSE "none"]
               /\ run' = AfterRegister(run, status)
    /\ UNCHANGED <<stopCh, boot, evictVars, storeVars, klog, kill, featureCheck>>

\* mutant: Run does not wait for the shutdown signal
Received_AtOnce(ch) == TRUE

\* <-stopCh returns once the channel is closed
Received(ch) == ch = "closed"

\* Run: <-stopCh, then return nil
Run_Return ==
    /\ run.pc = "blocked"
    /\ Received(stopCh)
    /\ run' = [run EXCEPT !.pc = "returned", !.err = "nil"]
    /\ UNCHANGED <<stopCh, boot, policies, evictVars, storeVars, klog, kill, featureCheck>>

\* a period of a running policy elapses before stopCh is closed: its function
\* is invoked
PolicyTick(p) ==
    /\ policies[p].status = "running"
    /\ stopCh = "open"
    /\ policies' = [policies EXCEPT ![p].invoked = TRUE]
    /\ UNCHANGED <<run, stopCh, boot, evictVars, storeVars, klog, kill, featureCheck>>

\* the informer, once Run has started it, delivers its notifications
Informer_Add(obj) == boot.informer /\ AddFunc(obj)
Informer_Update(obj) == boot.informer /\ UpdateFunc(obj)
Informer_Delete == boot.informer /\ Deleted

\* reconciler goroutines reading the store
NumReaders == 2
Readers == 1..NumReaders

\* identity metadata of the watched object (name, UID, resource version, labels)
Metas == {"rv1", "rv2"}

\* the pushed threshold block that sets only cpuSuppressThresholdPercent, to 80
OnlyCPUSuppress80 == Some([EmptyThreshold EXCEPT !.CPUSuppressThresholdPercent = Some(80)])

PushedThresholds ==
    {None,
     Some(EmptyThreshold),
     OnlyCPUSuppress80,
     Some([Enable |-> Some(FALSE), CPUSuppressThresholdPercent |-> Some(80),
           CPUSuppressPolicy |-> Some("cfsQuota"), MemoryEvictThresholdPercent |-> Some(60),
           MemoryEvictLowerPercent |-> Some(58)])}

PushedQoSStrategies ==
    {None,
     Some([EmptyQoSStrategy EXCEPT !.LSR =
        Some([EmptyResourceQoS EXCEPT !.ResctrlQoS =
            Some([EmptyResctrlQoS EXCEPT !.Enable = Some(TRUE),
                                         !.CATRangeEndPercent = Some(50)])])]),
     Some([EmptyQoSStrategy EXCEPT
        !.BE = Some([EmptyResourceQoS EXCEPT !.MemoryQoS =
                Some([EmptyMemoryQoS EXCEPT !.Enable = Some(TRUE), !.WmarkRatio = Some(90)])]),
        !.System = Some(EmptyResourceQoS)])}

PushedCPUBursts ==
    {None,
     Some([EmptyCPUBurst EXCEPT !.Policy = Some("auto"), !.CPUBurstPercent = Some(500)])}

\* the pushed objects with at most a threshold block that is partly filled
Sparse(o) ==
    /\ o.spec.ResourceQoSStrategy = None /\ o.spec.CPUBurstStrategy = None
    /\ o.spec.ResourceUsedThresholdWithBE \in {None, OnlyCPUSuppress80}

\* the strategy blocks a pushed object sets
SetBlocks(o) == {b \in Blocks : o.spec[b] # None}

\* the NodeSLO objects the cluster may push: under the first metadata the
\* combinations of the pushed blocks that set no block, one block or all three,
\* under the second metadata the sparse ones
NodeSLOs ==
    {o \in {[meta |-> m,
             spec |-> [ResourceUsedThresholdWithBE |-> t, ResourceQoSStrategy |-> q,
                       CPUBurstStrategy |-> b]] :
                m \in Metas, t \in PushedThresholds, q \in PushedQoSStrategies,
                b \in PushedCPUBursts} :
        \/ o.meta = "rv1" /\ Cardinality(SetBlocks(o)) \in {0, 1, 3}
        \/ Sparse(o)}

\* the pushed objects of the runs with several readers
FewNodeSLOs == {o \in NodeSLOs : o.meta = "rv1" /\ Sparse(o)}

\* ----------------------------------------------------- isFeatureDisabled

\* the feature gates a policy may ask about
BECPUSuppress == "BECPUSuppress"
BEMemoryEvict == "BEMemoryEvict"
Features == {BECPUSuppress, BEMemoryEvict, "BECgroupReconcile", "CgroupReconcile",
             "CPUBurst", "RdtResctrl"}

\* the errors of isFeatureDisabled
ErrInvalidNodeSLO == "cannot parse feature config for invalid nodeSLO"
ErrUnsupportedFeature == "cannot parse feature config for unsupported feature"

\* the NodeSLO pointers isFeatureDisabled may be called with: nil, what the
\* cluster pushed, and the same with the threshold block merged over the default
FeatureNodeSLOs ==
    {None}
    \cup {Some(o) : o \in NodeSLOs}
    \cup {Some([o EXCEPT !.spec.ResourceUsedThresholdWithBE =
                    MergeBlock(Some(DefaultThreshold), @)]) : o \in NodeSLOs}

\* mutant: a threshold block without an enable flag reads as enabled
isFeatureDisabled_FailsOpen(slo, feature) ==
    IF slo = None \/ slo[1].spec = EmptySpec
    THEN [disabled |-> TRUE, err |-> ErrInvalidNodeSLO]
    ELSE LET spec == slo[1].spec
         IN IF feature \in {BECPUSuppress, BEMemoryEvict}
            THEN IF spec.ResourceUsedThresholdWithBE = None
                 THEN [disabled |-> TRUE, err |-> ErrInvalidNodeSLO]
                 ELSE IF spec.ResourceUsedThresholdWithBE[1].Enable = None
                 THEN [disabled |-> FALSE, err |-> ErrInvalidNodeSLO]
                 ELSE [disabled |-> ~spec.ResourceUsedThresholdWithBE[1].Enable[1],
                       err |-> "nil"]
            ELSE [disabled |-> TRUE, err |-> ErrUnsupportedFeature]

\* isFeatureDisabled(nodeSLO, feature): whether the NodeSLO turns the feature
\* off, and the error
isFeatureDisabled(slo, feature) ==
    IF slo = None \/ slo[1].spec = EmptySpec
    THEN [disabled |-> TRUE, err |-> ErrInvalidNodeSLO]
    ELSE LET spec == slo[1].spec
         IN IF feature \in {BECPUSuppress, BEMemoryEvict}
            THEN IF \/ spec.ResourceUsedThresholdWithBE = None
                    \/ spec.ResourceUsedThresholdWithBE[1].Enable = None
                 THEN [disabled |-> TRUE, err |-> ErrInvalidNodeSLO]
                 ELSE [disabled |-> ~spec.ResourceUsedThresholdWithBE[1].Enable[1],
                       err |-> "nil"]
            ELSE [disabled |-> TRUE, err |-> ErrUnsupportedFeature]

\* a policy calls isFeatureDisabled
IsFeatureDisabled_Call(slo, feature) ==
    /\ featureCheck' = <<[nodeSLO |-> slo, feature |-> feature,
                          result |-> isFeatureDisabled(slo, feature)]>>
    /\ UNCHANGED <<evictVars, storeVars, klog, runVars, kill>>

Batches == SeqsUpTo(UIDs, MaxBatch)

\* each reconciler goroutine evicts for its own reason
ReasonOf(c) == IF c % 2 = 1 THEN "evictByCPU" ELSE "evictByMemory"

\* a reconciler calls evictPodIfNotEvicted(evictPod, node, reason, message)
CallEvictPodIfNotEvicted(c, uid) == Call(c, <<uid>>, ReasonOf(c))

\* a reconciler calls evictPodsIfNotEvicted(evictPods, node, reason, message)
CallEvictPodsIfNotEvicted(pods, reason) == Call(1, pods, reason)

Init ==
    /\ podsEvicted = <<>>
    /\ callers = [c \in Callers |->
            [pc |-> "idle", todo |-> <<>>, reason |-> ReasonOf(c), prev |-> "none"]]
    /\ emitted = Nothing
    /\ accepted = [u \in UIDs |-> NoWindow]
    /\ heap = [objs |-> <<>>, blks |-> <<>>]
    /\ nodeSLO = Nil
    /\ nodeSLORWMutex = Unlocked
    /\ informer = Nil
    /\ handler = [pc |-> "idle", op |-> "none"]
    /\ readers = [r \in Readers |->
            [pc |-> "idle", snap |-> Nil, dirty |-> FALSE, view |-> None]]
    /\ stored = None
    /\ resctrlGate \in BOOLEAN
    /\ verbosity \in Verbosities
    /\ crashed = FALSE
    /\ klog = <<>>
    /\ run = [pc |-> "new", err |-> "none", next |-> 1]
    /\ stopCh = "open"
    /\ boot = [sweep |-> FALSE, informer |-> FALSE, nodeSLOSynced |-> FALSE,
               statesSynced |-> FALSE]
    /\ policies = [p \in Policies |-> [status |-> "unregistered", gate |-> "unread", init |-> "none",
                               invoked |-> FALSE]]
    /\ kill = [pc |-> "idle", pod |-> <<>>, i |-> 1, stops |-> <<>>]
    /\ featureCheck = <<>>

\* the state after construction of a process started with the RdtResctrl
\* feature on and the default log level; the steps of the eviction pipeline, of
\* killContainers and of isFeatureDisabled read neither
InitDefaultFlags == Init /\ resctrlGate /\ verbosity = 0

\* concurrent reconcilers, each evicting one pod at a time
Next ==
    \/ \E c \in Callers, uid \in SharedUIDs : CallEvictPodIfNotEvicted(c, uid)
    \/ \E c \in Callers : EvictPodIfNotEvicted_Get(c)
    \/ \E c \in Callers : EvictPod_Send(c)
    \/ \E c \in Callers, err \in EvictErrs : EvictPod_Answer(c, err)
    \/ \E c \in Callers : EvictPodIfNotEvicted_Set(c)
    \/ Tick
    \/ Sweep

Spec == InitDefaultFlags /\ [][Next]_vars

\* one reconciler evicting batches of pods
NextBatch ==
    \/ \E pods \in Batches, reason \in Reasons : CallEvictPodsIfNotEvicted(pods, reason)
    \/ EvictPodIfNotEvicted_Get(1)
    \/ EvictPod_Send(1)
    \/ \E err \in EvictErrs : EvictPod_Answer(1, err)
    \/ EvictPodIfNotEvicted_Set(1)
    \/ Tick
    \/ Sweep

SpecBatch == InitDefaultFlags /\ [][NextBatch]_vars

\* the informer's callbacks and one reconciler reading the store
NextMerge ==
    \/ \E obj \in NodeSLOs : AddFunc(obj)
    \/ CreateNodeSLO_Lock
    \/ CreateNodeSLO_Assign
    \/ \E obj \in NodeSLOs : UpdateFunc(obj)
    \/ UpdateNodeSLOSpec_Lock
    \/ UpdateNodeSLOSpec_Assign
    \/ MergeAndUnlock
    \/ AddFunc_Log
    \/ Deleted
    \/ GetNodeSLOCopy_Lock(1)
    \/ GetNodeSLOCopy_Return(1)

SpecMerge == Init /\ [][NextMerge]_vars

\* the informer's callbacks and the reconcilers, which read the store and write
\* into what they got
NextStore ==
    \/ \E obj \in FewNodeSLOs : AddFunc(obj)
    \/ CreateNodeSLO_Lock
    \/ CreateNodeSLO_Assign
    \/ \E obj \in FewNodeSLOs : UpdateFunc(obj)
    \/ UpdateNodeSLOSpec_Lock
    \/ UpdateNodeSLOSpec_Assign
    \/ MergeAndUnlock
    \/ AddFunc_Log
    \/ Deleted
    \/ \E r \in Readers : GetNodeSLOCopy_Lock(r)
    \/ \E r \in Readers : GetNodeSLOCopy_Return(r)
    \/ \E r \in Readers, m \in Mutations : ReaderMutate(r, m)

SpecStore == Init /\ [][NextStore]_vars

\* Run, the informers, the informer's callbacks, the shutdown signal and the
\* running policies
NextRun ==
    \/ Run_StartSweep
    \/ Run_StartInformer
    \/ NodeSLOInformerSynced
    \/ StatesInformerSynced
    \/ Stop
    \/ Run_WaitNodeSLO
    \/ Run_WaitStates
    \/ Run_WaitHasSyncedTimeout
    \/ HasSynced_Lock
    \/ HasSynced_Return
    \/ Run_Register
    \/ Run_Return
    \/ \E p \in Policies : PolicyTick(p)
    \/ \E obj \in FewNodeSLOs : Informer_Add(obj)
    \/ CreateNodeSLO_Lock
    \/ CreateNodeSLO_Assign
    \/ \E obj \in FewNodeSLOs : Informer_Update(obj)
    \/ UpdateNodeSLOSpec_Lock
    \/ UpdateNodeSLOSpec_Assign
    \/ MergeAndUnlock
    \/ AddFunc_Log
    \/ Informer_Delete

SpecRun == Init /\ [][NextRun]_vars

\* the start of Run up to its wait for hasSynced, the informer's callbacks, and
\* the reconcilers reading the store
NextSync ==
    \/ Run_StartSweep
    \/ Run_StartInformer
    \/ NodeSLOInformerSynced
    \/ StatesInformerSynced
    \/ Stop
    \/ Run_WaitNodeSLO
    \/ Run_WaitStates
    \/ Run_WaitHasSyncedTimeout
    \/ HasSynced_Lock
    \/ HasSynced_Return
    \/ \E obj \in FewNodeSLOs : Informer_Add(obj)
    \/ CreateNodeSLO_Lock
    \/ CreateNodeSLO_Assign
    \/ \E obj \in FewNodeSLOs : Informer_Update(obj)
    \/ UpdateNodeSLOSpec_Lock
    \/ UpdateNodeSLOSpec_Assign
    \/ MergeAndUnlock
    \/ AddFunc_Log
    \/ Informer_Delete
    \/ \E r \in Readers : GetNodeSLOCopy_Lock(r)
    \/ \E r \in Readers : GetNodeSLOCopy_Return(r)

SpecSync == Init /\ [][NextSync]_vars

\* killContainers, called for one pod after the other
NextKill ==
    \/ \E pod \in Pods : KillContainers_Call(pod)
    \/ KillContainers_Loop

SpecKill == InitDefaultFlags /\ [][NextKill]_vars

\* the policies asking whether a feature is turned off
NextFeature ==
    \E slo \in FeatureNodeSLOs, feature \in Features : IsFeatureDisabled_Call(slo, feature)

SpecFeature == InitDefaultFlags /\ [][NextFeature]_vars

\* ------------------------------------------------------------- properties

\* the dedup entry of uid is present and has not expired
Live(uid) == uid \in DOMAIN podsEvicted /\ podsEvicted[uid].ttl > 0

\* the entry SetDefault writes for uid
FreshEntry(uid) == [object |-> uid, ttl |-> DefaultExpiration]

\* C1: a call for a pod whose dedup entry is live (a successful eviction was
\* recorded and has not expired) returns at the lookup: it sends no EvictV1
\* request, records no event and no metric and leaves the dedup cache as it is.
C1_IdempotentInsideWindow ==
    [][\A c \in Callers :
        (callers[c].pc = "get" /\ Live(CurPod(c)) /\ callers'[c] # callers[c])
        => /\ callers'[c].pc \in {"get", "idle"}
           /\ callers'[c].todo = Tail(callers[c].todo)
           /\ callers'[c].pc = "get" => callers'[c].prev = "evicted"
           /\ emitted' = Returned(c, "evicted")
           /\ podsEvicted' = podsEvicted]_vars

\* C1 witness: a call has returned at the dedup lookup
C1_Witness == \E c \in Callers : callers[c].pc = "idle" /\ emitted = Returned(c, "evicted")

\* C2 as stated: within one dedup TTL window (DefaultExpiration clock ticks from
\* the first answer that reports a request for the pod as an eviction) at most
\* one EvictV1 request for the pod is reported as an eviction, whatever the
\* interleaving of the callers.
C2_AtMostOncePerWindow == \A uid \in UIDs : accepted[uid].n <= 1

\* C2 amended: within one dedup TTL window the EvictV1 requests for a pod that are
\* reported as evictions are at most one per concurrent caller; a request
\* answered by another error is not counted, it opens no window and writes no
\* entry.
C2_AtMostOncePerCaller ==
    /\ [](\A uid \in UIDs :
            /\ accepted[uid].n <= NumCallers
            /\ accepted[uid].left = 0 <=> accepted[uid].n = 0
            /\ accepted[uid].left <= DefaultExpiration)
    /\ [][\A c \in Callers :
            (callers[c].pc = "answer" /\ callers'[c] # callers[c] /\ emitted'.err = ErrOther)
                => (accepted' = accepted /\ podsEvicted' = podsEvicted)]_vars

\* C2 witness: every caller got a request for the same pod reported as an
\* eviction in one TTL window, the last of them a clock tick after the first
C2_Witness ==
    \E uid \in UIDs :
        /\ NumCallers > 1
        /\ accepted[uid].n = NumCallers
        /\ accepted[uid].left < DefaultExpiration
        /\ emitted.err = ErrNil /\ CurPod(emitted.by) = uid

\* C3 as stated: a call whose EvictV1 request failed with NotFound returns
\* without changing the dedup cache.
C3_NoEntryOnNotFound ==
    [][\A c \in Callers :
        (callers[c].prev = ErrNotFound /\ callers[c].pc = "set" /\ callers'[c] # callers[c])
        => podsEvicted' = podsEvicted]_vars

\* C3 amended: a call whose EvictV1 request failed with NotFound goes on to
\* SetDefault, which writes the pod's dedup entry with the default TTL, as on
\* success.
C3_EntryOnNotFound ==
    [][\A c \in Callers :
        /\ (callers[c].pc = "answer" /\ callers'[c] # callers[c] /\ emitted'.err = ErrNotFound)
           => (callers'[c].pc = "set" /\ callers'[c].todo = callers[c].todo)
        /\ (callers[c].prev = ErrNotFound /\ callers[c].pc = "set" /\ callers'[c] # callers[c])
           => podsEvicted' = CacheSetDefault(podsEvicted, CurPod(c), CurPod(c))]_vars

\* C3 witness: a call answered NotFound has returned and the entry is live
C3_Witness ==
    \E c \in Callers : /\ callers[c].pc = "idle" /\ emitted = Returned(c, ErrNotFound)
                       /\ \E uid \in UIDs : podsEvicted = (uid :> FreshEntry(uid))

\* C4: right after an EvictV1 request answered NotFound, no evictPodFail event
\* has been recorded and the caller has taken evictPod's result as true.
C4_NotFoundIsSuccess ==
    emitted.err = ErrNotFound
    => /\ \A i \in DOMAIN emitted.events : emitted.events[i].reason # evictPodFail
       /\ callers[emitted.by].pc = "set"
       /\ callers[emitted.by].prev = ErrNotFound

\* C4 witness: an EvictV1 request has just been answered NotFound
C4_Witness == emitted.err = ErrNotFound /\ emitted.events = <<>>

\* C5: an EvictV1 request answered by another error records exactly one
\* evictPodFail event and no metric, is the only request of the call, ends the
\* call for that pod without a dedup entry being written; and a lookup that
\* finds no live entry goes on to a new request.
C5_OtherErrorFails ==
    [][\A c \in Callers :
        /\ (callers[c].pc = "evict" /\ callers'[c] # callers[c])
           => /\ emitted'.requests = <<CurPod(c)>>
              /\ callers'[c].pc = "answer" /\ callers'[c].todo = callers[c].todo
        /\ (callers[c].pc = "answer" /\ callers'[c] # callers[c] /\ emitted'.err = ErrOther)
           => /\ emitted'.events = <<[pod |-> CurPod(c), reason |-> evictPodFail]>>
              /\ emitted'.metrics = <<>>
              /\ emitted'.requests = <<>>
              /\ callers'[c].pc \in {"get", "idle"}
              /\ callers'[c].todo = Tail(callers[c].todo)
              /\ podsEvicted' = podsEvicted
              /\ accepted' = accepted
        /\ (callers[c].pc = "get" /\ ~Live(CurPod(c)) /\ callers'[c] # callers[c])
           => callers'[c].pc = "evict" /\ callers'[c].todo = callers[c].todo]_vars

\* C5 witness: a request has just been answered by another error, the call has
\* returned and the pod has no live dedup entry
C5_Witness ==
    /\ emitted.err = ErrOther
    /\ callers[emitted.by].pc = "idle"
    /\ \A uid \in UIDs : ~Live(uid)

\* C6: the loop of evictPodsIfNotEvicted handles the pods one by one in input
\* order: a step stays on the current pod or moves to the next one, the loop
\* returns only after the last pod, and every pod reached without a live dedup
\* entry gets its own EvictV1 request, whatever happened to the pods before it.
C6_BatchIndependence ==
    [][\A c \in Callers :
        (callers[c].pc # "idle" /\ callers'[c] # callers[c])
        => /\ \/ /\ callers'[c].todo = callers[c].todo
                 /\ <<callers[c].pc, callers'[c].pc>> \in {<<"get", "evict">>, <<"evict", "answer">>, <<"answer", "set">>}
              \/ /\ callers'[c].todo = Tail(callers[c].todo)
                 /\ callers'[c].pc = IF Tail(callers[c].todo) = <<>> THEN "idle" ELSE "get"
           /\ (callers[c].pc = "get" /\ ~Live(CurPod(c))) => callers'[c].pc = "evict"
           /\ callers[c].pc = "evict" => emitted'.requests = <<CurPod(c)>>]_vars

\* C6 witness: the eviction of the first pod of a batch failed and the loop is
\* sending the request for the second pod
C6_Witness ==
    /\ callers[1].prev = ErrOther /\ callers[1].pc = "evict"
    /\ Len(callers[1].todo) = 1 /\ emitted = Nothing

\* C7: a lookup for a pod whose dedup entry has expired (swept or not) goes on
\* to an EvictV1 request, and the SetDefault after an accepted request writes
\* the entry again with the default TTL.
C7_ExpiryCorrectness ==
    [][\A c \in Callers :
        callers'[c] # callers[c]
        => /\ (callers[c].pc = "get" /\ ~Live(CurPod(c))) => callers'[c].pc = "evict"
           /\ callers[c].pc = "evict" => emitted'.requests = <<CurPod(c)>>
           /\ callers[c].pc = "set"
              => /\ CurPod(c) \in DOMAIN podsEvicted'
                 /\ podsEvicted'[CurPod(c)] = FreshEntry(CurPod(c))]_vars

\* C7 witness: the entry has expired and is not swept yet, and the request of
\* a new call for the pod has been accepted
C7_Witness ==
    \E c \in Callers :
        /\ callers[c].pc = "set" /\ callers[c].prev = ErrNil
        /\ CurPod(c) \in DOMAIN podsEvicted /\ podsEvicted[CurPod(c)].ttl = 0

\* ---------------------------------------------- properties of the store

\* the leaves of a NodeSLOSpec, each named by the path of fields that leads to it
LeafPaths ==
    {<<"ResourceUsedThresholdWithBE", f>> : f \in DOMAIN EmptyThreshold}
    \cup {<<"CPUBurstStrategy", f>> : f \in DOMAIN EmptyCPUBurst}
    \cup {<<"ResourceQoSStrategy", c, "MemoryQoS", f>> :
            c \in QoSClasses, f \in DOMAIN EmptyMemoryQoS}
    \cup {<<"ResourceQoSStrategy", c, "ResctrlQoS", f>> :
            c \in QoSClasses, f \in DOMAIN EmptyResctrlQoS}

\* the field f behind the pointer v; None behind a nil pointer
Deref(v, f) == IF v = None THEN None ELSE v[1][f]

\* the leaf of spec at path p; None when it, or a block on the way to it, is nil
Leaf(spec, p) ==
    IF Len(p) = 2 THEN Deref(spec[p[1]], p[2])
    ELSE Deref(Deref(Deref(spec[p[1]], p[2]), p[3]), p[4])

\* the leaves the default config populates, and that each of them is set in spec
DefaultedPaths == {p \in LeafPaths : Leaf(DefaultNodeSLOSpecConfig, p) # None}
Total(spec) == \A p \in DefaultedPaths : Leaf(spec, p) # None

\* the leaf at p is the pushed one when it is set, the default's otherwise
Precedence(merged, pushed, p) ==
    Leaf(merged, p) = IF Leaf(pushed, p) # None THEN Leaf(pushed, p)
                      ELSE Leaf(DefaultNodeSLOSpecConfig, p)

\* the handler is inside createNodeSLO or updateNodeSLOSpec, past Lock()
InWrite == handler.pc \in {"create", "update", "merge"}

\* the store holds the merge of what the informer last handed over
Merged == handler.pc = "idle" /\ nodeSLO # Nil /\ informer # Nil

\* the enable leaves of the resctrl sub-policies
ResctrlEnablePaths == {<<"ResourceQoSStrategy", c, "ResctrlQoS", "Enable">> : c \in QoSClasses}

\* C8: once createNodeSLO or updateNodeSLOSpec has returned, every leaf that the
\* default config populates is set in the stored spec, whatever blocks the
\* pushed spec left nil or partly filled, and so it is set in every snapshot a
\* reconciler got from getNodeSLOCopy and has not written to.
C8_MergeIsTotal ==
    /\ (~InWrite /\ nodeSLO # Nil) => Total(ValueOf(heap, nodeSLO).spec)
    /\ \A r \in Readers :
        (readers[r].snap # Nil /\ ~readers[r].dirty)
            => Total(ValueOf(heap, readers[r].snap).spec)

\* C8 happens: a NodeSLO whose three strategy blocks are all nil was pushed and
\* merged, and a reconciler holds a snapshot of the result
C8_Witness ==
    /\ Merged
    /\ ValueOf(heap, informer).spec = EmptySpec
    /\ readers[1].snap # Nil
    /\ ValueOf(heap, readers[1].snap).spec = ValueOf(heap, nodeSLO).spec

\* C9 as stated: every leaf of every strategy block of the stored spec is the
\* pushed leaf when that is set and the default's leaf otherwise.
C9_PrecedenceEveryLeaf ==
    Merged => \A p \in LeafPaths :
        Precedence(ValueOf(heap, nodeSLO).spec, ValueOf(heap, informer).spec, p)

\* C9: every leaf of the stored spec is the pushed leaf when that is set and the
\* default's leaf otherwise, except the enable leaf of a resctrl sub-policy
\* while the feature is turned off for the process, which is never true; a pushed
\* threshold block that sets only cpuSuppressThresholdPercent to 80 is stored
\* with 80 there and the defaults in enable, cpuSuppressPolicy and
\* memoryEvictThresholdPercent.
C9_PrecedenceButResctrlGate ==
    Merged =>
        LET merged == ValueOf(heap, nodeSLO).spec
            pushed == ValueOf(heap, informer).spec
        IN /\ \A p \in LeafPaths \ ResctrlEnablePaths : Precedence(merged, pushed, p)
           /\ \A p \in ResctrlEnablePaths :
                IF resctrlGate THEN Precedence(merged, pushed, p)
                ELSE Leaf(merged, p) # Some(TRUE)
           /\ pushed.ResourceUsedThresholdWithBE = OnlyCPUSuppress80
                => merged.ResourceUsedThresholdWithBE =
                    Some([Enable |-> Some(TRUE), CPUSuppressThresholdPercent |-> Some(80),
                          CPUSuppressPolicy |-> Some("cpuset"),
                          MemoryEvictThresholdPercent |-> Some(70),
                          MemoryEvictLowerPercent |-> None])

\* C9 happens: a threshold block with only cpuSuppressThresholdPercent = 80 was
\* pushed and merged, together with a QoS block that enables resctrl for LSR,
\* while the resctrl feature is turned off
C9_Witness ==
    /\ Merged
    /\ ~resctrlGate
    /\ ValueOf(heap, informer).spec.ResourceUsedThresholdWithBE = OnlyCPUSuppress80
    /\ Leaf(ValueOf(heap, informer).spec,
            <<"ResourceQoSStrategy", "LSR", "ResctrlQoS", "Enable">>) = Some(TRUE)
    /\ Leaf(ValueOf(heap, nodeSLO).spec,
            <<"ResourceUsedThresholdWithBE", "CPUSuppressThresholdPercent">>) = Some(80)

\* the cells of the snapshot of reader r are r's own
OwnCells(r) ==
    /\ readers[r].snap = ReaderOwner(r)
    /\ \A b \in Blocks :
        heap.objs[readers[r].snap].spec[b] \in {Nil, BlockAddr(ReaderOwner(r), b)}

\* C10: getNodeSLOCopy returns nil while nothing is stored and otherwise a deep
\* copy of the stored object; whatever the reconcilers then write into their
\* snapshots and whatever createNodeSLO and updateNodeSLOSpec store later, each
\* snapshot holds what its reader got and wrote, in cells of its own, and the
\* store holds what the informer's callbacks last put there.
C10_SnapshotIsolation ==
    /\ [](/\ \A r \in Readers :
            /\ (readers[r].snap = Nil) <=> (readers[r].view = None)
            /\ readers[r].snap # Nil =>
                /\ ValueOf(heap, readers[r].snap) = readers[r].view[1]
                /\ OwnCells(r)
          /\ nodeSLO # Nil => ValueOf(heap, nodeSLO) = stored[1])
    /\ [][\A r \in Readers :
            (readers[r].pc = "locked" /\ readers'[r].pc = "idle")
                => readers'[r].view = stored]_vars

\* C10 happens: two reconcilers hold snapshots, one has written to a leaf and to
\* a field of its snapshot, and the store has since been updated
C10_Witness ==
    /\ handler.pc = "idle" /\ nodeSLO # Nil
    /\ readers[1].snap # Nil /\ readers[1].dirty
    /\ readers[1].view[1].meta = "mutated"
    /\ Leaf(readers[1].view[1].spec,
            <<"ResourceUsedThresholdWithBE", "CPUSuppressThresholdPercent">>) = Some(1)
    /\ readers[2].snap # Nil /\ ~readers[2].dirty
    /\ readers[2].view # stored
    /\ ValueOf(heap, nodeSLO) # readers[2].view[1]

\* ------------------------------------- properties of the lock and of Run

\* C11: createNodeSLO and updateNodeSLOSpec hold the lock from before their
\* assignment of the pushed spec until after the merge, and getNodeSLOCopy and
\* hasSynced read under the same lock: whoever is inside holds the mutex, and
\* every read happens while no write is in progress, so that it returns the
\* state the last completed write left and never the pushed spec that is
\* assigned but not yet merged.
C11_NoPartialState ==
    /\ [](/\ InWrite <=> nodeSLORWMutex = HandlerOwner
          /\ \A r \in Readers : readers[r].pc = "locked" => nodeSLORWMutex = ReaderOwner(r)
          /\ run.pc = "hasSynced" => nodeSLORWMutex = RunOwner)
    /\ [][/\ \A r \in Readers :
                (readers[r].pc = "locked" /\ readers'[r].pc = "idle")
                    => (~InWrite /\ readers'[r].view = stored)
          /\ (run.pc = "hasSynced" /\ run'.pc # "hasSynced")
                => /\ ~InWrite
                   /\ (run'.pc = "register") <=>
                        (stored # None /\ stored[1].spec.ResourceUsedThresholdWithBE # None)]_vars

\* C11 happens: hasSynced has returned true, a reconciler holds the snapshot of an
\* earlier write, and the next write has assigned the pushed spec and not yet
\* merged it
C11_Witness ==
    /\ run.pc = "register"
    /\ handler.pc = "merge"
    /\ readers[1].view # None
    /\ readers[1].view # stored
    /\ stored[1].spec.ResourceUsedThresholdWithBE = None

\* Run has made a util.RunFeature or util.RunFeatureWithInit call
Registering == \E p \in Policies : policies[p].status # "unregistered"

\* Run is past its wait for the NodeSLO informer, for the states informer, for hasSynced
PastNodeSLOWait == run.pc \in {"waitStates", "waitHasSynced", "hasSynced", "register", "blocked"}
PastStatesWait == run.pc \in {"waitHasSynced", "hasSynced", "register", "blocked"}
PastHasSyncedWait == run.pc \in {"register", "blocked"}

\* the stored NodeSLO has a threshold block
ThresholdSet ==
    nodeSLO # Nil /\ heap.objs[nodeSLO].spec.ResourceUsedThresholdWithBE # Nil

\* Run starts the sweep of the dedup cache before the NodeSLO informer, goes past
\* each of its three waits only when the NodeSLO informer has synced, then the
\* states informer has synced, then hasSynced has returned true, and makes no
\* RunFeature or RunFeatureWithInit call before that
BootOrder ==
    /\ boot.informer => boot.sweep
    /\ run.pc \notin {"new", "startInformer"} => (boot.sweep /\ boot.informer)
    /\ PastNodeSLOWait => boot.nodeSLOSynced
    /\ PastStatesWait => (PastNodeSLOWait /\ boot.statesSynced)
    /\ PastHasSyncedWait => PastStatesWait
    /\ Registering =>
        (boot.sweep /\ boot.informer /\ boot.nodeSLOSynced /\ boot.statesSynced)

\* this step is a RunFeature or RunFeatureWithInit call of Run
Launches ==
    \E p \in Policies : policies[p].status = "unregistered" /\ policies'[p].status # "unregistered"

\* a callback has assigned a pushed spec with no threshold block to the store and
\* has not yet merged it
RawSpecInStore ==
    /\ handler.pc = "merge" /\ nodeSLORWMutex = HandlerOwner
    /\ informer # Nil
    /\ ValueOf(heap, informer).spec.ResourceUsedThresholdWithBE = None

\* C12 as stated: Run keeps the boot order, and at every RunFeature or
\* RunFeatureWithInit call, and from the first one on, the store holds a NodeSLO
\* whose threshold block is non-nil.
C12_ThresholdAtLaunch ==
    /\ [](BootOrder /\ (Registering => ThresholdSet))
    /\ [][Launches => ThresholdSet]_vars

\* C12 amended: Run keeps the boot order; once hasSynced has returned true, and so
\* at every RunFeature or RunFeatureWithInit call, the store holds a NodeSLO, and
\* its threshold block is non-nil except while a callback holds the write lock
\* between assigning a pushed spec with no threshold block and merging it.
C12_OrderedBoot ==
    /\ [](/\ BootOrder
          /\ PastHasSyncedWait =>
                /\ nodeSLO # Nil
                /\ ThresholdSet \/ RawSpecInStore
                /\ nodeSLORWMutex # HandlerOwner => ThresholdSet
          /\ Registering =>
                /\ nodeSLO # Nil
                /\ ThresholdSet \/ RawSpecInStore
                /\ nodeSLORWMutex # HandlerOwner => ThresholdSet)
    /\ [][Launches => (PastHasSyncedWait /\ nodeSLO # Nil /\ (ThresholdSet \/ RawSpecInStore))]_vars

\* C12 happens: after the three waits Run has started a policy and is about to
\* register the next one, and the store holds the merge of a pushed spec with no
\* threshold block
C12_Witness ==
    /\ run.pc = "register"
    /\ policies["reconcileBECgroup"].status = "running"
    /\ handler.pc = "idle" /\ informer # Nil
    /\ ValueOf(heap, informer).spec.ResourceUsedThresholdWithBE = None
    /\ ThresholdSet

\* C13: Run returns an error only out of one of its three waits, each with its own
\* error and only once the shutdown signal has fired, and then it has made no
\* RunFeature or RunFeatureWithInit call; past the three waits Run makes all six
\* calls and returns only from its wait for the shutdown signal, and returns nil.
C13_RunResult ==
    /\ [](/\ run.pc # "returned" <=> run.err = "none"
          /\ run.err \in RunErrs \cup {"nil", "none"}
          /\ run.err \in RunErrs => (~Registering /\ stopCh = "closed")
          /\ run.err = "nil" =>
                /\ stopCh = "closed"
                /\ boot.nodeSLOSynced /\ boot.statesSynced /\ nodeSLO # Nil
                /\ \A p \in Policies : policies[p].status # "unregistered")
    /\ [][(run.pc # "returned" /\ run'.pc = "returned") =>
            /\ run.pc = "waitNodeSLO" <=> run'.err = ErrNodeSLOSync
            /\ run.pc = "waitStates" <=> run'.err = ErrStatesSync
            /\ run.pc = "waitHasSynced" <=> run'.err = ErrHasSynced
            /\ run.pc = "blocked" <=> run'.err = "nil"]_vars

\* C13 happens: the first two waits succeeded, the shutdown signal fired before a
\* NodeSLO with a threshold block was stored, and Run returned the error of the
\* third wait
C13_Witness ==
    /\ run.pc = "returned" /\ run.err = ErrHasSynced
    /\ boot.nodeSLOSynced /\ boot.statesSynced
    /\ nodeSLO = Nil

\* C14: when the informer notifies an update of the NodeSLO whose spec is deeply
\* equal to the spec of the object as it was notified before (a resync, or a
\* change of metadata only), updateNodeSLOSpec is not called: the stored NodeSLO
\* and the lock are left alone, no log line about a change is written, and
\* getNodeSLOCopy returns after it what it returned before it.
C14_NoOpSuppression ==
    [][(/\ handler.pc = "idle" /\ informer # Nil /\ informer' # Nil
        /\ ValueOf(heap', informer').spec = ValueOf(heap, informer).spec)
        => /\ handler' = handler
           /\ nodeSLO' = nodeSLO
           /\ stored' = stored
           /\ nodeSLO # Nil => ValueOf(heap', nodeSLO') = ValueOf(heap, nodeSLO)
           /\ klog' \in {<<>>, <<LogUnchanged>>}
           /\ nodeSLO # Nil =>
                LET before == GetNodeSLOCopy(heap, nodeSLO, 1)
                    after == GetNodeSLOCopy(heap', nodeSLO', 1)
                IN ValueOf(after.heap, after.ptr) = ValueOf(before.heap, before.ptr)]_vars

\* C14 happens: an update that changed only the metadata of the NodeSLO was
\* notified; the store still holds the merge of the spec under the metadata it
\* was created with, and a reconciler holds a snapshot equal to it
C14_Witness ==
    /\ handler.pc = "idle" /\ informer # Nil /\ nodeSLO # Nil
    /\ ValueOf(heap, informer).meta = "rv2"
    /\ ValueOf(heap, nodeSLO).meta = "rv1"
    /\ ValueOf(heap, informer).spec.ResourceUsedThresholdWithBE = OnlyCPUSuppress80
    /\ Leaf(ValueOf(heap, nodeSLO).spec,
            <<"ResourceUsedThresholdWithBE", "CPUSuppressThresholdPercent">>) = Some(80)
    /\ readers[1].view = stored
    /\ klog = <<LogUnchanged>>

\* ------------------------------------------- properties of killContainers

\* container i of the pod is running, has a container ID and a runtime handler
Stoppable(i) == kill.pod[i].handler

\* the stop requests killContainers has sent for container i of the pod
StopsOf(i) == {k \in DOMAIN kill.stops : kill.stops[k].container = i}

\* C15: a failed runtime-handler lookup or a failed stop request does not end
\* killContainers: in a pod, a container that comes after containers that are all
\* running with a container ID, whatever the outcome of their handler lookup and
\* of their stop request, gets its own stop request when it is running and has a
\* container ID and a handler.
C15_HandlerOrStopFailureGoesOn ==
    /\ [](kill.pc = "done" =>
            \A i \in DOMAIN kill.pod :
                (/\ Stoppable(i)
                 /\ \A j \in 1..(i - 1) : kill.pod[j].id)
                    => Cardinality(StopsOf(i)) = 1)
    /\ [][(/\ kill.pc = "loop"
           /\ kill.pod[kill.i].id
           /\ kill.i < Len(kill.pod))
            => (kill'.pc = "loop" /\ kill'.i = kill.i + 1)]_vars

\* C15 happens: killContainers is done with a pod of two running containers with
\* container IDs; the handler lookup failed for the first, the second was sent its
\* stop request
C15_Witness ==
    /\ kill.pc = "done"
    /\ Len(kill.pod) = 2
    /\ kill.pod[1].id /\ ~kill.pod[1].handler
    /\ Stoppable(2)
    /\ kill.stops = <<StopRequest(2)>>

\* C16 as stated: a container that is missing from the pod status does not keep
\* killContainers from the other containers of the pod. In a pod where every
\* container is either missing from the status or running with a container ID
\* and a handler, each of the latter has been sent a stop request when
\* killContainers is done.
C16_MissingStatusGoesOn ==
    (/\ kill.pc = "done"
     /\ \A j \in DOMAIN kill.pod : ~kill.pod[j].found \/ Stoppable(j))
        => \A i \in DOMAIN kill.pod : Stoppable(i) => StopsOf(i) # {}

\* C20 as stated: when killContainers is done, every container of the pod that is
\* running and has a container ID and a runtime handler has been sent exactly one
\* stop request, with grace period 0, whatever the containers before it.
C20_EveryStoppableStoppedOnce ==
    kill.pc = "done" =>
        \A i \in DOMAIN kill.pod :
            Stoppable(i) =>
                /\ Cardinality(StopsOf(i)) = 1
                /\ \A k \in StopsOf(i) : kill.stops[k].grace = 0

\* --------------------------------------------- properties of the policies

\* C17: a policy registered with a required feature that is disabled is never
\* invoked, however many periods of the other policies elapse before the
\* shutdown signal, and its registration raises no error: Run goes on to the
\* next registration and does not return for it.
C17_DisabledNeverInvoked ==
    /\ [](\A p \in Policies :
            policies[p].gate = "off" =>
                /\ ~policies[p].invoked
                /\ policies[p].status = "disabled"
                /\ run.err \in {"none", "nil"})
    /\ [][\A p \in Policies :
            (policies[p].gate = "unread" /\ policies'[p].gate = "off")
                => (run'.pc \in {"register", "blocked"} /\ run'.err = "none")]_vars

\* C17 happens: cpuSuppress was registered with its feature disabled, the policy
\* registered before it and the one registered after it have been invoked, and
\* Run has returned nil after the shutdown signal
C17_Witness ==
    /\ policies["cpuSuppress"].gate = "off"
    /\ ~policies["cpuSuppress"].invoked
    /\ policies["reconcileBECgroup"].invoked
    /\ policies["memoryEvictor"].invoked
    /\ run.pc = "returned" /\ run.err = "nil"

\* C18: a policy whose init function returned an error is never invoked and its
\* init is not run again; the failure is not returned by Run, which goes on to
\* register the policies after it, and it changes nothing for the other policies.
C18_InitFailureIsLocal ==
    /\ [](\A p \in Policies :
            policies[p].init = "failed" =>
                /\ ~policies[p].invoked
                /\ policies[p].status = "initFailed"
                /\ run.err \in {"none", "nil"})
    /\ [](run.pc \in {"blocked", "returned"} /\ run.err \in {"none", "nil"}
            => \A p \in Policies : policies[p].status # "unregistered")
    /\ [][\A p \in Policies :
            /\ policies[p].init = "failed" => policies'[p] = policies[p]
            /\ (policies[p].init = "none" /\ policies'[p].init = "failed")
                => /\ run'.pc \in {"register", "blocked"} /\ run'.err = "none"
                   /\ \A q \in Policies \ {p} : policies'[q] = policies[q]]_vars

\* C18 happens: the init of cgroupResourceReconcile failed; the policy registered
\* before it and the ones registered after it run and have been invoked
C18_Witness ==
    /\ policies["cgroupResourceReconcile"].init = "failed"
    /\ ~policies["cgroupResourceReconcile"].invoked
    /\ policies["reconcileBECgroup"].invoked
    /\ policies["cpuSuppress"].invoked
    /\ policies["cpuBurst"].init = "ok" /\ policies["cpuBurst"].invoked
    /\ run.pc = "blocked"

\* ------------------------------------------- properties of isFeatureDisabled

\* the enable flag of the threshold block of the NodeSLO a call was made with,
\* or None when the NodeSLO, the block or the flag is nil
EnableOf(slo) ==
    IF slo = None THEN None
    ELSE IF slo[1].spec.ResourceUsedThresholdWithBE = None THEN None
    ELSE slo[1].spec.ResourceUsedThresholdWithBE[1].Enable

\* the arguments for which the feature cannot be determined
Undetermined(slo, feature) ==
    \/ slo = None
    \/ \A b \in Blocks : slo[1].spec[b] = None
    \/ feature \notin {BECPUSuppress, BEMemoryEvict}
    \/ EnableOf(slo) = None

\* C19: isFeatureDisabled fails closed: called with a nil NodeSLO, a spec whose
\* blocks are all nil, a feature other than BECPUSuppress and BEMemoryEvict, or a
\* NodeSLO without threshold block or enable flag, it returns an error and
\* disabled = true; whenever it returns an error, disabled is true; when it
\* returns no error, disabled is the negation of the threshold block's enable.
C19_FailsClosed ==
    featureCheck # <<>> =>
        LET call == featureCheck[1]
        IN /\ Undetermined(call.nodeSLO, call.feature) => call.result.err # "nil"
           /\ call.result.err # "nil" => call.result.disabled
           /\ call.result.err = "nil" =>
                /\ EnableOf(call.nodeSLO) # None
                /\ call.result.disabled = ~EnableOf(call.nodeSLO)[1]

\* C19 happens: BEMemoryEvict is asked about with a NodeSLO whose threshold block
\* is set but has no enable flag; the call returned an error and disabled = true
C19_Witness ==
    /\ featureCheck # <<>>
    /\ featureCheck[1].feature = BEMemoryEvict
    /\ featureCheck[1].nodeSLO # None
    /\ featureCheck[1].nodeSLO[1].spec.ResourceUsedThresholdWithBE = OnlyCPUSuppress80
    /\ featureCheck[1].result = [disabled |-> TRUE, err |-> ErrInvalidNodeSLO]

\* ------------------------------------- further properties of the eviction

\* C21: right after an EvictV1 request answered without error, exactly one
\* evictPodSuccess event for the pod and exactly one eviction metric tagged with
\* the call's reason have been recorded, and the caller's next step inserts the
\* dedup entry keyed by the pod UID with the UID as value; a success event or a
\* metric is recorded by no other step (NotFound, another error, a dedup hit).
C21_SuccessPath ==
    /\ [](/\ emitted.err = ErrNil
            => /\ emitted.events =
                    <<[pod |-> CurPod(emitted.by), reason |-> evictPodSuccess]>>
               /\ emitted.metrics = <<callers[emitted.by].reason>>
               /\ callers[emitted.by].pc = "set"
          /\ emitted.err # ErrNil
            => /\ emitted.metrics = <<>>
               /\ \A i \in DOMAIN emitted.events :
                    emitted.events[i].reason # evictPodSuccess)
    /\ [][\A c \in Callers :
            (callers[c].pc = "evict" /\ callers'[c] # callers[c])
                => /\ emitted'.requests = <<CurPod(c)>>
                   /\ callers'[c].pc = "answer" /\ callers'[c].todo = callers[c].todo]_vars
    /\ [][\A c \in Callers :
            (callers[c].pc = "answer" /\ callers'[c] # callers[c] /\ emitted'.err = ErrNil)
                => callers'[c].todo = callers[c].todo]_vars
    /\ [][\A c \in Callers :
            (callers[c].pc = "set" /\ callers[c].prev = ErrNil /\ callers'[c] # callers[c])
                => /\ CurPod(c) \in DOMAIN podsEvicted'
                   /\ podsEvicted'[CurPod(c)] =
                        [object |-> CurPod(c), ttl |-> DefaultExpiration]
                   /\ \A k \in DOMAIN podsEvicted' \ {CurPod(c)} :
                        k \in DOMAIN podsEvicted /\ podsEvicted'[k] = podsEvicted[k]]_vars

\* C21 happens: an EvictV1 request has just succeeded for a caller evicting by
\* memory, while the other caller is past a request answered NotFound
C21_Witness ==
    /\ emitted.err = ErrNil
    /\ emitted.by = 2
    /\ emitted.metrics = <<"evictByMemory">>
    /\ Len(emitted.events) = 1
    /\ callers[2].pc = "set"
    /\ callers[1].prev = ErrNotFound

\* ------------------------------------------ further properties of the store

\* what the stored object holds besides its spec
StoredMeta(H) == H.objs[nodeSLO].meta

\* C22: updateNodeSLOSpec changes only the spec of the stored object: no step of
\* an update notification, and no step other than the assignment of
\* createNodeSLO, changes r.nodeSLO or what the stored object holds besides its
\* spec, whatever metadata the notified object carries.
C22_UpdateKeepsMetadata ==
    [][(nodeSLO # Nil /\ handler.pc # "create")
        => /\ nodeSLO' = nodeSLO
           /\ StoredMeta(heap') = StoredMeta(heap)]_vars

\* C22 happens: an update notification whose object carries other metadata than
\* the stored object has been applied, and the stored spec is the merge of the
\* notified spec
C22_Witness ==
    /\ Merged
    /\ klog = <<LogContent>>
    /\ StoredMeta(heap) = "rv1"
    /\ ValueOf(heap, informer).meta = "rv2"
    /\ ValueOf(heap, informer).spec.ResourceUsedThresholdWithBE = OnlyCPUSuppress80
    /\ Deref(ValueOf(heap, nodeSLO).spec.ResourceUsedThresholdWithBE,
             "CPUSuppressThresholdPercent") = Some(80)

\* C23: getNodeSLOCopy and hasSynced take the lock in shared mode: a reader is
\* blocked only while a writer (createNodeSLO, updateNodeSLOSpec) holds the
\* lock, so a reconciler about to call getNodeSLOCopy, and Run about to call
\* hasSynced, can enter whenever the handler does not hold the mutex, another
\* reader being inside or not.
C23_ReadersShareLock ==
    nodeSLORWMutex # HandlerOwner
        => /\ \A r \in Readers :
                (~crashed /\ readers[r].pc = "idle") => ENABLED GetNodeSLOCopy_Lock(r)
           /\ run.pc = "waitHasSynced" => ENABLED HasSynced_Lock

\* the spec mergeNodeSLOSpec leaves in the store for a delivered spec: a function
\* of that spec, the default config and the process's resctrl gate
MergedSpec(spec, gate) ==
    [ResourceUsedThresholdWithBE |->
        MergeBlock(DefaultNodeSLOSpecConfig.ResourceUsedThresholdWithBE,
                   spec.ResourceUsedThresholdWithBE),
     ResourceQoSStrategy |->
        mergeNoneResourceQoSIfDisabled(
            mergeSLOSpecResourceQoSStrategy(DefaultNodeSLOSpecConfig.ResourceQoSStrategy,
                                            spec.ResourceQoSStrategy), gate),
     CPUBurstStrategy |->
        MergeBlock(DefaultNodeSLOSpecConfig.CPUBurstStrategy, spec.CPUBurstStrategy)]

\* C24: whatever notifications came before, once the last add or update
\* notification has been applied the stored spec is the merge of the default
\* config with the spec that notification delivered; a leaf the last delivered
\* spec leaves nil holds the default's value (or, for the enable leaf of a resctrl
\* sub-policy, false), never a value pushed earlier.
C24_HistoryIndependence ==
    Merged =>
        LET last == ValueOf(heap, informer).spec
            now == ValueOf(heap, nodeSLO).spec
        IN /\ now = MergedSpec(last, resctrlGate)
           /\ \A p \in LeafPaths :
                Leaf(last, p) = None
                    => \/ Leaf(now, p) = Leaf(DefaultNodeSLOSpecConfig, p)
                       \/ p \in ResctrlEnablePaths /\ Leaf(now, p) = Some(FALSE)

\* C24 happens: a reconciler holds a snapshot of the store from when the pushed
\* threshold block set enable = false and memoryEvictLowerPercent = 58; a later
\* update pushed no threshold block, and the store holds the default block
C24_Witness ==
    /\ Merged
    /\ klog = <<LogContent>>
    /\ readers[1].view # None
    /\ Deref(readers[1].view[1].spec.ResourceUsedThresholdWithBE,
             "MemoryEvictLowerPercent") = Some(58)
    /\ ValueOf(heap, informer).spec.ResourceUsedThresholdWithBE = None
    /\ ValueOf(heap, nodeSLO).spec.ResourceUsedThresholdWithBE = Some(DefaultThreshold)

\* hasSynced has returned true to the wait of Run
HasSyncedReturnedTrue == PastHasSyncedWait \/ (run.pc = "returned" /\ run.err = "nil")

\* C25: readiness is monotonic: the store, once populated, is never reset, and
\* from the moment hasSynced has returned true the stored NodeSLO has a threshold
\* block in every state in which the callbacks do not hold the lock, that is in
\* every state in which hasSynced can read it, whatever add and update
\* notifications follow and after the deletion of the watched object.
C25_ReadinessMonotonic ==
    /\ []((HasSyncedReturnedTrue /\ nodeSLORWMutex # HandlerOwner) => ThresholdSet)
    /\ [][nodeSLO # Nil => nodeSLO' = nodeSLO]_vars

\* C25 happens: hasSynced has returned true, an update that pushed no threshold
\* block has been applied, the watched object has then been deleted, and the
\* store still holds the default threshold block
C25_Witness ==
    /\ run.pc = "blocked"
    /\ informer = Nil
    /\ handler.pc = "idle"
    /\ nodeSLO # Nil
    /\ ValueOf(heap, nodeSLO).spec.ResourceUsedThresholdWithBE = Some(DefaultThreshold)

\* C26: updateNodeSLOSpec never runs on an empty store: whenever the handler is
\* inside updateNodeSLOSpec, createNodeSLO has populated r.nodeSLO, so the write
\* to r.nodeSLO.Spec dereferences no nil pointer and the agent does not crash.
C26_UpdateAfterCreate ==
    /\ handler.op = "update" => (nodeSLO # Nil /\ nodeSLO \in DOMAIN heap.objs)
    /\ ~crashed

\* C26 happens: the handler is inside updateNodeSLOSpec, before its assignment,
\* for an update that pushes a threshold block over a store that createNodeSLO
\* or an earlier update filled from a spec without one
C26_Witness ==
    /\ handler.pc = "update"
    /\ nodeSLO # Nil
    /\ ValueOf(heap, informer).spec.ResourceUsedThresholdWithBE = OnlyCPUSuppress80
    /\ ValueOf(heap, nodeSLO).spec.ResourceUsedThresholdWithBE = Some(DefaultThreshold)

====
